---- MODULE Spec2Model ----
(***************************************************************************)
(* NoLang: the static verifier (crates/verifier) and the stack virtual     *)
(* machine (crates/vm) over the 64-bit instruction format (crates/common). *)
(*                                                                         *)
(* Program counters and indices are 0-based as in the source; a program is *)
(* a TLA+ sequence, so instruction i of the source is prog[i + 1].         *)
(***************************************************************************)
EXTENDS Integers, Sequences, FiniteSets, TLC

VARIABLES
    prog,    \* Program.instructions
    phase,   \* which call of the pipeline verify(P); run(P) is in progress
    ver,     \* the verifier's locals: all_errors, ProgramContext, scan state
    vm,      \* the VM struct's fields plus the native call chain of execute_range
    last,    \* history: the instruction most recently dispatched by the VM
    call     \* the library call under check outside the pipeline: its argument and result

vars == <<prog, phase, ver, vm, last, call>>

(***************************************************************************)
(* Widths and limits                                                       *)
(***************************************************************************)
U16 == 65536
MAX_STACK_DEPTH == 4096
MAX_PROGRAM_SIZE == 65536
MAX_REF_INDEX == 4096
MAX_RECURSION_LIMIT == 1024

\* Bounds of the model (not program constants).
MaxLen == 2        \* exhaustive programs over Alphabet have 1..MaxLen instructions
MaxFrames == 6     \* call frames explored before a run is cut off
MaxNative == 3      \* nested execute_range activations explored before a cut off
LimitMargin == 3    \* REF indices and RECURSE limits explored on each side of a limit

(***************************************************************************)
(* Instruction (common/src/instruction.rs)                                 *)
(***************************************************************************)
Instruction(op, tt, a1, a2, a3) ==
    [opcode |-> op, type_tag |-> tt, arg1 |-> a1, arg2 |-> a2, arg3 |-> a3]

I0(op) == Instruction(op, "None", 0, 0, 0)
I1(op, a1) == Instruction(op, "None", a1, 0, 0)
I2(op, a1, a2) == Instruction(op, "None", a1, a2, 0)

\* instrs[i] and instrs.len() with the source's 0-based indices
At(instrs, i) == instrs[i + 1]
InRange(instrs, i) == i >= 0 /\ i < Len(instrs)
OpAt(instrs, i) == IF InRange(instrs, i) THEN At(instrs, i).opcode ELSE "<none>"

Min(a, b) == IF a < b THEN a ELSE b
Max(a, b) == IF a > b THEN a ELSE b

\* Vec::truncate, Vec::pop (which is a no-op on an empty Vec)
Truncate(s, n) == IF n < Len(s) THEN SubSeq(s, 1, n) ELSE s
PopSeq(s) == IF Len(s) = 0 THEN s ELSE SubSeq(s, 1, Len(s) - 1)
Top(s) == s[Len(s)]
Reverse(s) == [i \in 1..Len(s) |-> s[Len(s) + 1 - i]]

\* TypeTag::try_from(u8)
TagBytes ==
    <<"None", "I64", "U64", "F64", "Bool", "Char", "Variant", "Tuple",
      "FuncType", "Array", "Maybe", "Result", "Unit">>
TypeTagFromByte(b) == IF b < Len(TagBytes) THEN TagBytes[b + 1] ELSE "<reserved>"

(***************************************************************************)
(* 64-bit words as four 16-bit limbs, most significant first               *)
(***************************************************************************)
Zero4 == <<0, 0, 0, 0>>
One4 == <<0, 0, 0, 1>>

AddW(a, b) ==
    LET s4 == a[4] + b[4]
        s3 == a[3] + b[3] + (s4 \div U16)
        s2 == a[2] + b[2] + (s3 \div U16)
        s1 == a[1] + b[1] + (s2 \div U16)
    IN  <<s1 % U16, s2 % U16, s3 % U16, s4 % U16>>

NotW(a) == <<U16 - 1 - a[1], U16 - 1 - a[2], U16 - 1 - a[3], U16 - 1 - a[4]>>
NegW(a) == AddW(NotW(a), One4)
SubW(a, b) == AddW(a, NegW(b))
IsNegW(a) == a[1] >= 32768

LtU(a, b) ==
    \E i \in 1..4 : a[i] < b[i] /\ \A j \in 1..(i - 1) : a[j] = b[j]
LtS(a, b) == IF IsNegW(a) # IsNegW(b) THEN IsNegW(a) ELSE LtU(a, b)

RECURSIVE BitOp(_, _, _, _)
BitOp(f, x, y, k) ==
    IF k = 0 THEN 0
    ELSE LET bx == x % 2
             by == y % 2
             r == CASE f = "and" -> bx * by
                    [] f = "or" -> IF bx + by > 0 THEN 1 ELSE 0
                    [] OTHER -> (bx + by) % 2
         IN  r + 2 * BitOp(f, x \div 2, y \div 2, k - 1)
BitW(f, a, b) == [i \in 1..4 |-> BitOp(f, a[i], b[i], 16)]

\* A word as a small integer, when it is one: i64 in -32768..32767
SmallS(a) ==
    \/ (a[1] = 0 /\ a[2] = 0 /\ a[3] = 0 /\ a[4] < 32768)
    \/ (a[1] = U16 - 1 /\ a[2] = U16 - 1 /\ a[3] = U16 - 1 /\ a[4] >= 32768)
SmallU(a) == a[1] = 0 /\ a[2] = 0 /\ a[3] = 0 /\ a[4] < 32768
ToInt(a) == IF a[1] = 0 THEN a[4] ELSE a[4] - U16
\* a 32-bit signed integer sign-extended to 64 bits (val32 as i32 as i64)
FromInt(x) ==
    LET hi == IF x >= 0 THEN x \div U16 ELSE -((-x + U16 - 1) \div U16)
        lo == x - hi * U16
    IN  IF x >= 0 THEN <<0, 0, hi, lo>> ELSE <<U16 - 1, U16 - 1, hi + U16, lo>>

(***************************************************************************)
(* Value (common/src/value.rs).  t: the variant; w: the 64 payload bits of *)
(* I64, U64, F64, the Bool (0/1), the Char codepoint, or a Variant's tag;  *)
(* n: a Variant's tag_count; p: the payload / fields / elements.           *)
(***************************************************************************)
Value(t, w, n, p) == [t |-> t, w |-> w, n |-> n, p |-> p]
VI64(w) == Value("I64", w, 0, <<>>)
VU64(w) == Value("U64", w, 0, <<>>)
VF64(w) == Value("F64", w, 0, <<>>)
VBool(b) == Value("Bool", <<0, 0, 0, IF b THEN 1 ELSE 0>>, 0, <<>>)
VChar(c) == Value("Char", <<0, 0, 0, c>>, 0, <<>>)
VUnit == Value("Unit", Zero4, 0, <<>>)
VVariant(tag_count, tag, payload) == Value("Variant", <<0, 0, 0, tag>>, tag_count, <<payload>>)
VTuple(fields) == Value("Tuple", Zero4, 0, fields)
VArray(elements) == Value("Array", Zero4, 0, elements)
IsTrue(v) == v.t = "Bool" /\ v.w[4] = 1

\* Value::type_tag
ValueTypeTag(v) == v.t

\* f64::is_nan / is_infinite on the bit pattern: exponent bits all ones
F64ExpAllOnes(w) == (w[1] % 32768) \div 16 = 2047
F64IsInf(w) == F64ExpAllOnes(w) /\ w[1] % 16 = 0 /\ w[2] = 0 /\ w[3] = 0 /\ w[4] = 0
F64IsNaN(w) == F64ExpAllOnes(w) /\ ~F64IsInf(w)
F64IsZero(w) == w[1] % 32768 = 0 /\ w[2] = 0 /\ w[3] = 0 /\ w[4] = 0

\* Instruction::const_value; <<>> is None
const_value(instr) ==
    IF instr.opcode # "CONST" THEN <<>>
    ELSE CASE instr.type_tag = "I64" ->
                <<VI64(IF instr.arg1 >= 32768
                       THEN <<U16 - 1, U16 - 1, instr.arg1, instr.arg2>>
                       ELSE <<0, 0, instr.arg1, instr.arg2>>)>>
           [] instr.type_tag = "U64" -> <<VU64(<<0, 0, instr.arg1, instr.arg2>>)>>
           [] instr.type_tag = "Bool" -> <<VBool(instr.arg1 # 0)>>
           [] instr.type_tag = "Char" ->
                IF instr.arg1 >= 55296 /\ instr.arg1 <= 57343 THEN <<>>
                ELSE <<VChar(instr.arg1)>>
           [] instr.type_tag = "Unit" -> <<VUnit>>
           [] OTHER -> <<>>

\* Result<Vec<Instruction>, &'static str>
FromValueOk(instructions) == [ok |-> TRUE, value |-> instructions]
FromValueErr(message) == [ok |-> FALSE, message |-> message]

\* CONST_EXT + NOP carrier for the 64 bits w
const_ext_pair(tt, w) ==
    <<Instruction("CONST_EXT", tt, w[1], 0, 0), Instruction("NOP", "None", w[2], w[3], w[4])>>

\* Instruction::from_value.  A Char holds its code point in the low 32 bits of
\* w; `*val as u16` keeps the low 16.
from_value(value) ==
    CASE value.t = "I64" ->
            IF \/ value.w[1] = 0 /\ value.w[2] = 0 /\ value.w[3] < 32768
               \/ value.w[1] = U16 - 1 /\ value.w[2] = U16 - 1 /\ value.w[3] >= 32768
            THEN FromValueOk(<<Instruction("CONST", "I64", value.w[3], value.w[4], 0)>>)
            ELSE FromValueOk(const_ext_pair("I64", value.w))
      [] value.t = "U64" ->
            IF value.w[1] = 0 /\ value.w[2] = 0
            THEN FromValueOk(<<Instruction("CONST", "U64", value.w[3], value.w[4], 0)>>)
            ELSE FromValueOk(const_ext_pair("U64", value.w))
      [] value.t = "F64" ->
            IF F64IsNaN(value.w) THEN FromValueErr("cannot encode NaN as CONST")
            ELSE IF F64IsInf(value.w) THEN FromValueErr("cannot encode infinity as CONST")
            ELSE FromValueOk(const_ext_pair("F64", value.w))
      [] value.t = "Bool" ->
            FromValueOk(<<Instruction("CONST", "Bool", IF IsTrue(value) THEN 1 ELSE 0, 0, 0)>>)
      [] value.t = "Char" -> FromValueOk(<<Instruction("CONST", "Char", value.w[4], 0, 0)>>)
      [] value.t = "Unit" -> FromValueOk(<<Instruction("CONST", "Unit", 0, 0, 0)>>)
      [] OTHER -> FromValueErr("cannot encode compound value as CONST")

(***************************************************************************)
(* Verifier errors (verifier/src/error.rs): kind, instruction index, and   *)
(* one detail field (index, limit, expected tag, depth, ...)               *)
(***************************************************************************)
VerifyError(kind, at, info) == [kind |-> kind, at |-> at, info |-> info]

Kinds(errors) == {errors[i].kind : i \in 1..Len(errors)}
HasKind(errors, kind) == \E i \in 1..Len(errors) : errors[i].kind = kind
HasError(errors, kind, at) ==
    \E i \in 1..Len(errors) : errors[i].kind = kind /\ errors[i].at = at

(***************************************************************************)
(* Pass 1: limits (verifier/src/limits.rs)                                 *)
(***************************************************************************)
\* the `for` loop over instrs[lo..hi): the errors in index order.  The range is
\* halved so that a program at the size limit is scanned in bounded depth.
RECURSIVE limits_scan(_, _, _)
limits_scan(instrs, lo, hi) ==
    IF lo >= hi THEN <<>>
    ELSE IF hi = lo + 1
    THEN LET instr == At(instrs, lo)
         IN  IF instr.opcode = "REF" /\ instr.arg1 > MAX_REF_INDEX
             THEN <<VerifyError("RefTooDeep", lo, instr.arg1)>>
             ELSE IF instr.opcode = "RECURSE" /\ instr.arg1 > MAX_RECURSION_LIMIT
             THEN <<VerifyError("RecursionLimitTooHigh", lo, instr.arg1)>>
             ELSE <<>>
    ELSE LET mid == lo + ((hi - lo) \div 2)
         IN  limits_scan(instrs, lo, mid) \o limits_scan(instrs, mid, hi)

\* check_limits without the per-instruction scan (no RefTooDeep, no
\* RecursionLimitTooHigh)
check_limits_size_only(instrs) ==
    IF Len(instrs) > MAX_PROGRAM_SIZE
    THEN <<VerifyError("ProgramTooLarge", 0, Len(instrs))>> ELSE <<>>

\* check_limits refusing a program of exactly MAX_PROGRAM_SIZE instructions
check_limits_exclusive(instrs) ==
    (IF Len(instrs) >= MAX_PROGRAM_SIZE
     THEN <<VerifyError("ProgramTooLarge", 0, Len(instrs))>> ELSE <<>>)
    \o limits_scan(instrs, 0, Len(instrs))

check_limits(instrs) ==
    (IF Len(instrs) > MAX_PROGRAM_SIZE
     THEN <<VerifyError("ProgramTooLarge", 0, Len(instrs))>> ELSE <<>>)
    \o limits_scan(instrs, 0, Len(instrs))

(***************************************************************************)
(* Pass 2: structural (verifier/src/structural.rs)                         *)
(***************************************************************************)
\* check_unused_fields: which of (type_tag, arg1, arg2, arg3) an opcode uses
UsedFields(op) ==
    CASE op \in {"REF", "MATCH", "PRE", "POST", "CALL", "RECURSE", "PROJECT", "TYPEOF"} ->
            <<FALSE, TRUE, FALSE, FALSE>>
      [] op \in {"CASE", "FUNC"} -> <<FALSE, TRUE, TRUE, FALSE>>
      [] op \in {"CONST", "VARIANT_NEW"} -> <<TRUE, TRUE, TRUE, FALSE>>
      [] op \in {"CONST_EXT", "TUPLE_NEW", "ARRAY_NEW"} -> <<TRUE, TRUE, FALSE, FALSE>>
      [] op = "PARAM" -> <<TRUE, FALSE, FALSE, FALSE>>
      [] op = "HASH" -> <<FALSE, TRUE, TRUE, TRUE>>
      [] OTHER -> <<FALSE, FALSE, FALSE, FALSE>>

check_unused_fields(instr, at) ==
    LET used == UsedFields(instr.opcode)
        has_nonzero ==
            \/ (~used[1] /\ instr.type_tag # "None")
            \/ (~used[2] /\ instr.arg1 # 0)
            \/ (~used[3] /\ instr.arg2 # 0)
            \/ (~used[4] /\ instr.arg3 # 0)
    IN  IF has_nonzero THEN <<VerifyError("NonZeroUnusedField", at, 0)>> ELSE <<>>

\* "Collect PARAMs": the types of the PARAM run starting at scan_pc
RECURSIVE collect_params(_, _, _)
collect_params(instrs, scan_pc, expected_endfunc) ==
    IF scan_pc < expected_endfunc /\ At(instrs, scan_pc).opcode = "PARAM"
    THEN <<At(instrs, scan_pc).type_tag>> \o collect_params(instrs, scan_pc + 1, expected_endfunc)
    ELSE <<>>

\* "Collect PRE blocks" / "Collect POST blocks": (instr_pc, start_pc, len) of
\* the run of `op` blocks starting at scan_pc
RECURSIVE collect_blocks(_, _, _, _)
collect_blocks(instrs, scan_pc, expected_endfunc, op) ==
    IF scan_pc < expected_endfunc /\ At(instrs, scan_pc).opcode = op
    THEN LET len == At(instrs, scan_pc).arg1
         IN  <<<<scan_pc, scan_pc + 1, len>>>>
             \o collect_blocks(instrs, scan_pc + 1 + len, expected_endfunc, op)
    ELSE <<>>

\* the scan position after a run of collected blocks
BlocksEnd(blocks, scan_pc) ==
    IF Len(blocks) = 0 THEN scan_pc ELSE Top(blocks)[2] + Top(blocks)[3]

\* The FUNC arm once the ENDFUNC is matched: the FuncInfo pushed
scan_func(instrs, pc) ==
    LET instr == At(instrs, pc)
        expected_endfunc == pc + 1 + instr.arg2
        param_types == collect_params(instrs, pc + 1, expected_endfunc)
        after_params == pc + 1 + Len(param_types)
        pre_conditions == collect_blocks(instrs, after_params, expected_endfunc, "PRE")
        after_pre == BlocksEnd(pre_conditions, after_params)
        post_conditions == collect_blocks(instrs, after_pre, expected_endfunc, "POST")
        body_start_pc == BlocksEnd(post_conditions, after_pre)
        hash_pc == IF expected_endfunc >= 2 /\ At(instrs, expected_endfunc - 1).opcode = "HASH"
                   THEN expected_endfunc - 1 ELSE -1
    IN  [func_pc |-> pc, endfunc_pc |-> expected_endfunc,
         param_count |-> instr.arg1, body_len |-> instr.arg2,
         param_types |-> param_types,
         pre_conditions |-> pre_conditions, post_conditions |-> post_conditions,
         body_start_pc |-> body_start_pc, hash_pc |-> hash_pc]

\* "Scan CASEs": at most `remaining` CASE entries from scan_pc, (case_pc, tag, body_len)
RECURSIVE scan_cases(_, _, _)
scan_cases(instrs, scan_pc, remaining) ==
    IF remaining = 0 \/ scan_pc >= Len(instrs) \/ At(instrs, scan_pc).opcode # "CASE"
    THEN <<>>
    ELSE LET c == At(instrs, scan_pc)
         IN  <<<<scan_pc, c.arg1, c.arg2>>>>
             \o scan_cases(instrs, scan_pc + 1 + c.arg2, remaining - 1)

CasesEnd(cases, scan_pc) ==
    IF Len(cases) = 0 THEN scan_pc ELSE Top(cases)[1] + 1 + Top(cases)[3]

\* "Check CASE ascending order".  expected_tag is prev_tag + 1 in u16.
RECURSIVE case_order_errors(_, _)
case_order_errors(case_entries, i) ==
    IF i > Len(case_entries) THEN <<>>
    ELSE LET prev_tag == case_entries[i - 1][2]
             cur == case_entries[i]
             e == IF cur[2] <= prev_tag
                  THEN <<VerifyError("CaseOrderViolation", cur[1], (prev_tag + 1) % U16)>>
                  ELSE <<>>
         IN  e \o case_order_errors(case_entries, i + 1)

\* prev_tag + 1 leaves u16 for some offending pair: the addition overflows
case_order_overflows(case_entries) ==
    \E i \in 2..Len(case_entries) :
        case_entries[i][2] <= case_entries[i - 1][2] /\ case_entries[i - 1][2] + 1 >= U16

\* One iteration of the scan loop `while pc < instrs.len()` on the scan state s.
\* overflow_checks: whether the build panics on integer overflow (debug) or wraps.
structural_iter(instrs, s, overflow_checks) ==
    LET pc == s.pc
        instr == At(instrs, pc)
        op == instr.opcode
    IN  CASE op = "FUNC" ->
                IF s.in_func # -1
                THEN [s EXCEPT !.errors = Append(@, VerifyError("NestedFunc", pc, 0)),
                               !.fatal = TRUE, !.pc = pc + 1]
                ELSE LET expected_endfunc == pc + 1 + instr.arg2
                     IN  IF expected_endfunc >= Len(instrs)
                            \/ At(instrs, expected_endfunc).opcode # "ENDFUNC"
                         THEN [s EXCEPT !.errors = Append(@, VerifyError("UnmatchedFunc", pc, 0)),
                                        !.fatal = TRUE, !.pc = pc + 1]
                         ELSE LET f == scan_func(instrs, pc)
                                  found == Len(f.param_types) % U16
                                  e == IF found # f.param_count
                                       THEN <<VerifyError("ParamCountMismatch", pc, found)>>
                                       ELSE <<>>
                              IN  [s EXCEPT !.errors = @ \o e,
                                            !.functions = Append(@, f),
                                            !.in_func = pc, !.pc = pc + 1]
          [] op = "ENDFUNC" ->
                [s EXCEPT !.errors = IF s.in_func = -1
                                     THEN Append(@, VerifyError("UnmatchedFunc", pc, 0))
                                     ELSE @,
                          !.fatal = IF s.in_func = -1 THEN TRUE ELSE @,
                          !.in_func = -1, !.pc = pc + 1]
          [] op = "MATCH" ->
                LET case_entries == scan_cases(instrs, pc + 1, instr.arg1)
                    scan_pc == CasesEnd(case_entries, pc + 1)
                IN  IF ~(scan_pc < Len(instrs) /\ At(instrs, scan_pc).opcode = "EXHAUST")
                    THEN [s EXCEPT !.errors = Append(@, VerifyError("UnmatchedMatch", pc, 0)),
                                   !.pc = pc + 1]
                    ELSE IF overflow_checks /\ case_order_overflows(case_entries)
                    THEN [s EXCEPT !.panicked = TRUE]
                    ELSE [s EXCEPT !.errors = @ \o case_order_errors(case_entries, 2),
                                   !.matches = Append(@, [match_pc |-> pc,
                                                          variant_count |-> instr.arg1,
                                                          cases |-> case_entries,
                                                          exhaust_pc |-> scan_pc]),
                                   !.pc = scan_pc + 1]
          [] OTHER ->
                [s EXCEPT !.errors = @ \o check_unused_fields(instr, pc),
                          !.pc = IF op = "CONST_EXT" /\ pc + 1 < Len(instrs)
                                 THEN pc + 2 ELSE pc + 1]

\* structural_finish reporting the open function without setting fatal
structural_finish_not_fatal(s) ==
    LET open == s.in_func # -1
        entry_point == IF Len(s.functions) = 0 THEN 0 ELSE Top(s.functions).endfunc_pc + 1
    IN  [s EXCEPT !.errors = IF open THEN Append(@, VerifyError("UnmatchedFunc", s.in_func, 0))
                             ELSE @,
                  !.entry_point = entry_point]

\* After the loop: the open-function check and the entry point
structural_finish(s) ==
    LET open == s.in_func # -1
        entry_point == IF Len(s.functions) = 0 THEN 0 ELSE Top(s.functions).endfunc_pc + 1
    IN  [s EXCEPT !.errors = IF open THEN Append(@, VerifyError("UnmatchedFunc", s.in_func, 0))
                             ELSE @,
                  !.fatal = IF open THEN TRUE ELSE @,
                  !.entry_point = entry_point]

\* Before the loop: the MissingHalt check and the initial locals
structural_start(instrs) ==
    [errors |-> IF Len(instrs) = 0 \/ Top(instrs).opcode # "HALT"
                THEN <<VerifyError("MissingHalt", 0, 0)>> ELSE <<>>,
     functions |-> <<>>, matches |-> <<>>, fatal |-> FALSE,
     pc |-> 0, in_func |-> -1, entry_point |-> 0, panicked |-> FALSE]

(***************************************************************************)
(* Pass 3: exhaustion (verifier/src/exhaustion.rs)                         *)
(***************************************************************************)
RECURSIVE duplicate_cases(_, _)
duplicate_cases(cases, i) ==
    IF i > Len(cases) THEN <<>>
    ELSE LET tag == cases[i][2]
             seen == \E j \in 1..(i - 1) : cases[j][2] = tag
         IN  (IF seen THEN <<VerifyError("DuplicateCase", cases[i][1], tag)>> ELSE <<>>)
             \o duplicate_cases(cases, i + 1)

RECURSIVE check_exhaustion_from(_, _)
check_exhaustion_from(matches, k) ==
    IF k > Len(matches) THEN <<>>
    ELSE LET match_info == matches[k]
             expected == match_info.variant_count
             found == Len(match_info.cases) % U16
         IN  (IF found # expected
              THEN <<VerifyError("NonExhaustiveMatch", match_info.match_pc, found)>>
              ELSE <<>>)
             \o duplicate_cases(match_info.cases, 1)
             \o check_exhaustion_from(matches, k + 1)

check_exhaustion(ctx) == check_exhaustion_from(ctx.matches, 1)

(***************************************************************************)
(* Instruction::encode and Pass 4: hashing (verifier/src/hashing.rs)       *)
(***************************************************************************)
OpcodeByte(op) ==
    CASE op = "BIND" -> 1 [] op = "REF" -> 2 [] op = "DROP" -> 3
      [] op = "CONST" -> 4 [] op = "CONST_EXT" -> 5
      [] op = "ADD" -> 16 [] op = "SUB" -> 17 [] op = "MUL" -> 18
      [] op = "DIV" -> 19 [] op = "MOD" -> 20 [] op = "NEG" -> 21
      [] op = "EQ" -> 32 [] op = "NEQ" -> 33 [] op = "LT" -> 34
      [] op = "GT" -> 35 [] op = "LTE" -> 36 [] op = "GTE" -> 37
      [] op = "AND" -> 48 [] op = "OR" -> 49 [] op = "NOT" -> 50
      [] op = "XOR" -> 51 [] op = "SHL" -> 52 [] op = "SHR" -> 53
      [] op = "MATCH" -> 64 [] op = "CASE" -> 65 [] op = "EXHAUST" -> 66
      [] op = "FUNC" -> 80 [] op = "PRE" -> 81 [] op = "POST" -> 82
      [] op = "RET" -> 83 [] op = "CALL" -> 84 [] op = "RECURSE" -> 85
      [] op = "ENDFUNC" -> 86 [] op = "PARAM" -> 87
      [] op = "VARIANT_NEW" -> 96 [] op = "TUPLE_NEW" -> 97 [] op = "PROJECT" -> 98
      [] op = "ARRAY_NEW" -> 99 [] op = "ARRAY_GET" -> 100 [] op = "ARRAY_LEN" -> 101
      [] op = "HASH" -> 112 [] op = "ASSERT" -> 113 [] op = "TYPEOF" -> 114
      [] op = "HALT" -> 254 [] op = "NOP" -> 255

\* self.type_tag as u8: the discriminants of enum TypeTag
TagByte(tt) ==
    CASE tt = "None" -> 0 [] tt = "I64" -> 1 [] tt = "U64" -> 2 [] tt = "F64" -> 3
      [] tt = "Bool" -> 4 [] tt = "Char" -> 5 [] tt = "Variant" -> 6 [] tt = "Tuple" -> 7
      [] tt = "FuncType" -> 8 [] tt = "Array" -> 9 [] tt = "Maybe" -> 10
      [] tt = "Result" -> 11 [] tt = "Unit" -> 12

encode(instr) ==
    <<OpcodeByte(instr.opcode), TagByte(instr.type_tag),
      instr.arg1 % 256, instr.arg1 \div 256,
      instr.arg2 % 256, instr.arg2 \div 256,
      instr.arg3 % 256, instr.arg3 \div 256>>

\* Result<T, DecodeError>
Ok(value) == [ok |-> TRUE, value |-> value]
Err(kind, info) == [ok |-> FALSE, kind |-> kind, info |-> info]

\* ALL_OPCODES
ALL_OPCODES ==
    {"BIND", "REF", "DROP", "CONST", "CONST_EXT", "ADD", "SUB", "MUL", "DIV", "MOD", "NEG",
     "EQ", "NEQ", "LT", "GT", "LTE", "GTE", "AND", "OR", "NOT", "XOR", "SHL", "SHR",
     "MATCH", "CASE", "EXHAUST", "FUNC", "PRE", "POST", "RET", "CALL", "RECURSE",
     "ENDFUNC", "PARAM", "VARIANT_NEW", "TUPLE_NEW", "PROJECT", "ARRAY_NEW", "ARRAY_GET",
     "ARRAY_LEN", "HASH", "ASSERT", "TYPEOF", "HALT", "NOP"}

\* TryFrom<u8> for Opcode
opcode_try_from(value) ==
    CASE value = 0 -> Err("IllegalOpcode", 0)
      [] value = 1 -> Ok("BIND") [] value = 2 -> Ok("REF") [] value = 3 -> Ok("DROP")
      [] value = 4 -> Ok("CONST") [] value = 5 -> Ok("CONST_EXT")
      [] value = 16 -> Ok("ADD") [] value = 17 -> Ok("SUB") [] value = 18 -> Ok("MUL")
      [] value = 19 -> Ok("DIV") [] value = 20 -> Ok("MOD") [] value = 21 -> Ok("NEG")
      [] value = 32 -> Ok("EQ") [] value = 33 -> Ok("NEQ") [] value = 34 -> Ok("LT")
      [] value = 35 -> Ok("GT") [] value = 36 -> Ok("LTE") [] value = 37 -> Ok("GTE")
      [] value = 48 -> Ok("AND") [] value = 49 -> Ok("OR") [] value = 50 -> Ok("NOT")
      [] value = 51 -> Ok("XOR") [] value = 52 -> Ok("SHL") [] value = 53 -> Ok("SHR")
      [] value = 64 -> Ok("MATCH") [] value = 65 -> Ok("CASE")
      [] value = 66 -> Ok("EXHAUST") [] value = 80 -> Ok("FUNC") [] value = 81 -> Ok("PRE")
      [] value = 82 -> Ok("POST") [] value = 83 -> Ok("RET") [] value = 84 -> Ok("CALL")
      [] value = 85 -> Ok("RECURSE") [] value = 86 -> Ok("ENDFUNC")
      [] value = 87 -> Ok("PARAM") [] value = 96 -> Ok("VARIANT_NEW")
      [] value = 97 -> Ok("TUPLE_NEW") [] value = 98 -> Ok("PROJECT")
      [] value = 99 -> Ok("ARRAY_NEW") [] value = 100 -> Ok("ARRAY_GET")
      [] value = 101 -> Ok("ARRAY_LEN") [] value = 112 -> Ok("HASH")
      [] value = 113 -> Ok("ASSERT") [] value = 114 -> Ok("TYPEOF")
      [] value = 254 -> Ok("HALT") [] value = 255 -> Ok("NOP")
      [] OTHER -> Err("ReservedOpcode", value)

\* TryFrom<u8> for TypeTag
type_tag_try_from(value) ==
    IF value <= 12 THEN Ok(TagBytes[value + 1]) ELSE Err("ReservedTypeTag", value)

\* u16::from_le_bytes
from_le_bytes(b0, b1) == b0 + 256 * b1

\* Instruction::decode with a mismatched byte order
decode_big_endian(bytes) ==
    LET opcode == opcode_try_from(bytes[1])
        type_tag == type_tag_try_from(bytes[2])
    IN  IF ~opcode.ok THEN opcode
        ELSE IF ~type_tag.ok THEN type_tag
        ELSE Ok(Instruction(opcode.value, type_tag.value, from_le_bytes(bytes[4], bytes[3]),
                            from_le_bytes(bytes[6], bytes[5]), from_le_bytes(bytes[8], bytes[7])))

\* Instruction::decode with the type tag tested before the opcode
decode_tag_first(bytes) ==
    LET opcode == opcode_try_from(bytes[1])
        type_tag == type_tag_try_from(bytes[2])
    IN  IF ~type_tag.ok THEN type_tag
        ELSE IF ~opcode.ok THEN opcode
        ELSE Ok(Instruction(opcode.value, type_tag.value, from_le_bytes(bytes[3], bytes[4]),
                            from_le_bytes(bytes[5], bytes[6]), from_le_bytes(bytes[7], bytes[8])))

\* Instruction::decode
decode(bytes) ==
    LET opcode == opcode_try_from(bytes[1])
        type_tag == type_tag_try_from(bytes[2])
    IN  IF ~opcode.ok THEN opcode
        ELSE IF ~type_tag.ok THEN type_tag
        ELSE Ok(Instruction(opcode.value, type_tag.value, from_le_bytes(bytes[3], bytes[4]),
                            from_le_bytes(bytes[5], bytes[6]), from_le_bytes(bytes[7], bytes[8])))

\* Program::encode
RECURSIVE program_encode_from(_, _)
program_encode_from(instructions, k) ==
    IF k > Len(instructions) THEN <<>>
    ELSE encode(instructions[k]) \o program_encode_from(instructions, k + 1)

program_encode(instructions) == program_encode_from(instructions, 1)

\* Program::decode: the loop over bytes.chunks_exact(8); `?` returns the first error
RECURSIVE program_decode_chunks(_, _, _)
program_decode_chunks(bytes, k, instructions) ==
    IF 8 * k >= Len(bytes) THEN Ok(instructions)
    ELSE LET r == decode(SubSeq(bytes, 8 * k + 1, 8 * k + 8))
         IN  IF ~r.ok THEN r
             ELSE program_decode_chunks(bytes, k + 1, Append(instructions, r.value))

\* Program::decode that accepts a trailing partial chunk
program_decode_any_length(bytes) == program_decode_chunks(SubSeq(bytes, 1, 8 * (Len(bytes) \div 8)), 0, <<>>)

\* Program::decode
program_decode(bytes) ==
    IF Len(bytes) % 8 # 0 THEN Err("InvalidLength", Len(bytes))
    ELSE program_decode_chunks(bytes, 0, <<>>)

\* blake3::hash(&data) over the encodings of instrs[from..to], first six
\* bytes as three big-endian u16.  The digest itself is an external crate; a
\* rolling checksum over the same bytes, in the same order, stands in for it.
RollBytes(h, e, m) ==
    LET h1 == (h * m + e[1] + 1) % U16
        h2 == (h1 * m + e[2] + 1) % U16
        h3 == (h2 * m + e[3] + 1) % U16
        h4 == (h3 * m + e[4] + 1) % U16
        h5 == (h4 * m + e[5] + 1) % U16
        h6 == (h5 * m + e[6] + 1) % U16
        h7 == (h6 * m + e[7] + 1) % U16
    IN  (h7 * m + e[8] + 1) % U16

RECURSIVE Roll(_, _, _, _, _)
Roll(instrs, from, to, h, m) ==
    IF from >= to THEN h
    ELSE LET next == RollBytes(h, encode(At(instrs, from)), m)
         IN  \* the checksum is a u16: the test only orders the evaluation
             IF next >= U16 THEN next ELSE Roll(instrs, from + 1, to, next, m)

blake3_hash48(instrs, from, to) ==
    <<Roll(instrs, from, to, 7, 31), Roll(instrs, from, to, 11, 37),
      Roll(instrs, from, to, 13, 41)>>

compute_func_hash(instrs, func_pc, hash_pc) ==
    LET h == blake3_hash48(instrs, func_pc, hash_pc)
    IN  Instruction("HASH", "None", h[1], h[2], h[3])

RECURSIVE check_hashing_from(_, _, _)
check_hashing_from(instrs, functions, k) ==
    IF k > Len(functions) THEN <<>>
    ELSE LET func == functions[k]
             e == IF func.hash_pc = -1
                  THEN <<VerifyError("MissingHash", func.func_pc, 0)>>
                  ELSE LET computed == blake3_hash48(instrs, func.func_pc, func.hash_pc)
                           hash_instr == At(instrs, func.hash_pc)
                           expected == <<hash_instr.arg1, hash_instr.arg2, hash_instr.arg3>>
                       IN  IF expected # computed
                           THEN <<VerifyError("HashMismatch", func.hash_pc, 0)>>
                           ELSE <<>>
         IN  e \o check_hashing_from(instrs, functions, k + 1)

check_hashing(instrs, ctx) == check_hashing_from(instrs, ctx.functions, 1)

(***************************************************************************)
(* Pass 7: stack balance (verifier/src/stack.rs)                           *)
(***************************************************************************)
stack_pops(instr) ==
    LET op == instr.opcode
    IN  CASE op \in {"BIND", "NEG", "NOT", "MATCH", "ASSERT", "DROP", "ARRAY_LEN", "RET",
                     "VARIANT_NEW", "TYPEOF", "PROJECT"} -> 1
          [] op \in {"ADD", "SUB", "MUL", "DIV", "MOD", "EQ", "NEQ", "LT", "GT", "LTE", "GTE",
                     "AND", "OR", "XOR", "SHL", "SHR", "ARRAY_GET"} -> 2
          [] OTHER -> 0

stack_delta(instr) ==
    LET op == instr.opcode
    IN  CASE op \in {"CONST", "CONST_EXT", "REF", "TYPEOF"} -> 1
          [] op \in {"BIND", "ASSERT", "MATCH", "RET", "ARRAY_GET",
                     "ADD", "SUB", "MUL", "DIV", "MOD", "EQ", "NEQ", "LT", "GT", "LTE", "GTE",
                     "AND", "OR", "XOR", "SHL", "SHR"} -> -1
          [] op \in {"TUPLE_NEW", "ARRAY_NEW"} -> -(instr.arg1 - 1)
          [] OTHER -> 0

\* ctx.matches.iter().find(|m| m.match_pc == pc); <<>> is None
find_match(ctx, pc) ==
    LET hits == {k \in 1..Len(ctx.matches) : ctx.matches[k].match_pc = pc}
    IN  IF hits = {} THEN <<>>
        ELSE <<ctx.matches[CHOOSE k \in hits : \A j \in hits : k <= j]>>

\* stack.rs check_range: the errors pushed on the walk from pc with `depth`
RECURSIVE stack_check_range(_, _, _, _, _)
stack_check_range(instrs, ctx, pc, end, depth0) ==
    IF pc >= end THEN <<>>
    ELSE LET instr == At(instrs, pc)
             op == instr.opcode
             delta == stack_delta(instr)
             depth == depth0 + delta
         IN  IF depth0 < stack_pops(instr) THEN <<VerifyError("StackUnderflow", pc, 0)>>
             ELSE IF depth < 0 THEN <<VerifyError("StackUnderflow", pc, 0)>>
             ELSE CASE op = "HALT" ->
                        IF depth # 1 THEN <<VerifyError("UnbalancedStack", pc, depth)>> ELSE <<>>
                    [] op = "CONST_EXT" -> stack_check_range(instrs, ctx, pc + 2, end, depth)
                    [] op = "MATCH" ->
                        LET mi == find_match(ctx, pc)
                        IN  IF mi # <<>>
                            THEN stack_check_range(instrs, ctx, mi[1].exhaust_pc + 1, end, depth + 1)
                            ELSE stack_check_range(instrs, ctx, pc + 1, end, depth)
                    [] op = "FUNC" ->
                        stack_check_range(instrs, ctx, pc + 1 + instr.arg2 + 1, end, depth - delta)
                    [] op \in {"PRE", "POST"} ->
                        stack_check_range(instrs, ctx, pc + 1 + instr.arg1, end, depth - delta)
                    [] op = "RET" -> <<>>
                    [] OTHER -> stack_check_range(instrs, ctx, pc + 1, end, depth)

RECURSIVE stack_check_functions(_, _, _)
stack_check_functions(instrs, ctx, k) ==
    IF k > Len(ctx.functions) THEN <<>>
    ELSE stack_check_range(instrs, ctx, ctx.functions[k].body_start_pc,
                           ctx.functions[k].endfunc_pc, 0)
         \o stack_check_functions(instrs, ctx, k + 1)

check_stack(instrs, ctx) ==
    (IF ctx.entry_point < Len(instrs)
     THEN stack_check_range(instrs, ctx, ctx.entry_point, Len(instrs), 0) ELSE <<>>)
    \o stack_check_functions(instrs, ctx, 1)

(***************************************************************************)
(* Pass 5: types (verifier/src/types.rs)                                   *)
(***************************************************************************)
is_numeric(tt) == tt \in {"I64", "U64", "F64"}

TypeMismatch(at, expected, found) ==
    VerifyError("TypeMismatch", at, TagByte(expected) * 256 + TagByte(found))

\* n times Vec::pop
PopN(s, n) == IF n >= Len(s) THEN <<>> ELSE SubSeq(s, 1, Len(s) - n)

\* CALL: pop one argument per declared parameter, last parameter first
RECURSIVE call_arg_check(_, _, _, _)
call_arg_check(c, param_types, k, pc) ==
    IF k = 0 THEN c
    ELSE IF Len(c.stack) = 0 THEN call_arg_check(c, param_types, k - 1, pc)
    ELSE LET actual_type == Top(c.stack)
             expected_type == param_types[k]
             e == IF actual_type # expected_type /\ expected_type # "None"
                  THEN <<TypeMismatch(pc, expected_type, actual_type)>> ELSE <<>>
         IN  call_arg_check([c EXCEPT !.stack = PopSeq(@), !.errors = @ \o e],
                            param_types, k - 1, pc)

\* One arm of TypeChecker::check_range's match: the checker after instrs[pc]
\* (c.pc is advanced as the arm advances it).
type_step(instrs, ctx, c) ==
    LET pc == c.pc
        instr == At(instrs, pc)
        op == instr.opcode
        two == Len(c.stack) >= 2
        b == Top(c.stack)
        a == c.stack[Len(c.stack) - 1]
        mism == IF a # b THEN <<TypeMismatch(pc, a, b)>> ELSE <<>>
        next == [c EXCEPT !.pc = pc + 1]
    IN  CASE op = "CONST" -> [next EXCEPT !.stack = Append(@, instr.type_tag)]
          [] op = "CONST_EXT" -> [c EXCEPT !.stack = Append(@, instr.type_tag), !.pc = pc + 2]
          [] op = "BIND" ->
                IF Len(c.stack) > 0
                THEN [next EXCEPT !.stack = PopSeq(@), !.bindings = Append(@, Top(c.stack))]
                ELSE next
          [] op = "REF" ->
                IF instr.arg1 >= Len(c.bindings)
                THEN [next EXCEPT !.errors = Append(@, VerifyError("UnresolvableRef", pc, instr.arg1)),
                                  !.stack = Append(@, "None")]
                ELSE [next EXCEPT !.stack = Append(@, c.bindings[Len(c.bindings) - instr.arg1])]
          [] op = "DROP" -> [next EXCEPT !.bindings = PopSeq(@)]
          [] op \in {"ADD", "SUB", "MUL", "DIV"} ->
                IF two
                THEN [next EXCEPT !.errors = @ \o mism \o
                                      (IF ~is_numeric(a) THEN <<TypeMismatch(pc, "I64", a)>> ELSE <<>>),
                                  !.stack = Append(PopN(@, 2), a)]
                ELSE next
          [] op = "MOD" ->
                IF two
                THEN [next EXCEPT !.errors = @ \o mism \o
                                      (IF a # "I64" /\ a # "U64"
                                       THEN <<TypeMismatch(pc, "I64", a)>> ELSE <<>>),
                                  !.stack = Append(PopN(@, 2), a)]
                ELSE next
          [] op = "NEG" ->
                IF Len(c.stack) > 0
                THEN [next EXCEPT !.errors = @ \o
                                      (IF b # "I64" /\ b # "F64"
                                       THEN <<TypeMismatch(pc, "I64", b)>> ELSE <<>>)]
                ELSE next
          [] op \in {"EQ", "NEQ", "LT", "GT", "LTE", "GTE"} ->
                IF two
                THEN [next EXCEPT !.errors = @ \o mism, !.stack = Append(PopN(@, 2), "Bool")]
                ELSE [next EXCEPT !.stack = Append(@, "Bool")]
          [] op \in {"AND", "OR", "XOR", "SHL", "SHR"} ->
                IF two
                THEN [next EXCEPT !.errors = @ \o mism, !.stack = Append(PopN(@, 2), a)]
                ELSE next
          [] op = "MATCH" ->
                LET mi == find_match(ctx, pc)
                IN  IF mi # <<>>
                    THEN [c EXCEPT !.stack = Append(PopSeq(@), "None"), !.pc = mi[1].exhaust_pc + 1]
                    ELSE [next EXCEPT !.stack = PopSeq(@)]
          [] op = "CASE" -> [c EXCEPT !.pc = pc + 1 + instr.arg2]
          [] op = "FUNC" -> [c EXCEPT !.pc = pc + 1 + instr.arg2 + 1]
          [] op \in {"PRE", "POST"} -> [c EXCEPT !.pc = pc + 1 + instr.arg1]
          [] op = "CALL" ->
                IF instr.arg1 < Len(ctx.functions)
                THEN LET param_types == At(ctx.functions, instr.arg1).param_types
                         popped == call_arg_check(c, param_types, Len(param_types), pc)
                     IN  [popped EXCEPT !.stack = Append(@, "None"), !.pc = pc + 1]
                ELSE next
          [] op = "RECURSE" -> [next EXCEPT !.stack = Append(@, "None")]
          [] op = "VARIANT_NEW" -> [next EXCEPT !.stack = Append(PopSeq(@), "Variant")]
          [] op = "TUPLE_NEW" -> [next EXCEPT !.stack = Append(PopN(@, instr.arg1), "Tuple")]
          [] op = "PROJECT" -> [next EXCEPT !.stack = Append(PopSeq(@), "None")]
          [] op = "ARRAY_NEW" -> [next EXCEPT !.stack = Append(PopN(@, instr.arg1), "Array")]
          [] op = "ARRAY_GET" -> [next EXCEPT !.stack = Append(PopN(@, 2), "None")]
          [] op = "ARRAY_LEN" -> [next EXCEPT !.stack = Append(PopSeq(@), "U64")]
          [] op = "ASSERT" ->
                IF Len(c.stack) > 0
                THEN [next EXCEPT !.stack = PopSeq(@),
                                  !.errors = @ \o (IF b # "Bool" /\ b # "None"
                                                   THEN <<TypeMismatch(pc, "Bool", b)>> ELSE <<>>)]
                ELSE next
          [] op = "TYPEOF" -> [next EXCEPT !.stack = Append(@, "Bool")]
          [] OTHER -> next

RECURSIVE type_walk(_, _, _, _)
type_walk(instrs, ctx, c, end) ==
    IF c.pc >= end THEN c ELSE type_walk(instrs, ctx, type_step(instrs, ctx, c), end)

\* TypeChecker::new + check_range: the errors of one range
type_check_range(instrs, ctx, start, end, initial_bindings) ==
    type_walk(instrs, ctx,
              [pc |-> start, stack |-> <<>>, bindings |-> initial_bindings, errors |-> <<>>],
              end).errors

RECURSIVE type_check_functions(_, _, _)
type_check_functions(instrs, ctx, k) ==
    IF k > Len(ctx.functions) THEN <<>>
    ELSE type_check_range(instrs, ctx, ctx.functions[k].body_start_pc,
                          ctx.functions[k].endfunc_pc, ctx.functions[k].param_types)
         \o type_check_functions(instrs, ctx, k + 1)

check_types(instrs, ctx) ==
    (IF ctx.entry_point < Len(instrs)
     THEN type_check_range(instrs, ctx, ctx.entry_point, Len(instrs), <<>>) ELSE <<>>)
    \o type_check_functions(instrs, ctx, 1)

(***************************************************************************)
(* Pass 6: contracts (verifier/src/contracts.rs)                           *)
(***************************************************************************)
\* stack.pop(); stack.pop(); push(a.unwrap_or(None)) where a is the second pop
PushSecond(stack) ==
    Append(PopN(stack, 2), IF Len(stack) >= 2 THEN stack[Len(stack) - 1] ELSE "None")

RECURSIVE condition_walk(_, _, _, _, _)
condition_walk(instrs, pc, end, stack, bindings) ==
    IF ~(pc < end /\ pc < Len(instrs)) THEN stack
    ELSE LET instr == At(instrs, pc)
             op == instr.opcode
         IN  CASE op = "CONST" ->
                    condition_walk(instrs, pc + 1, end, Append(stack, instr.type_tag), bindings)
               [] op = "CONST_EXT" ->
                    condition_walk(instrs, pc + 2, end, Append(stack, instr.type_tag), bindings)
               [] op = "REF" ->
                    condition_walk(instrs, pc + 1, end,
                        Append(stack, IF instr.arg1 < Len(bindings)
                                      THEN bindings[Len(bindings) - instr.arg1] ELSE "None"),
                        bindings)
               [] op = "BIND" ->
                    IF Len(stack) > 0
                    THEN condition_walk(instrs, pc + 1, end, PopSeq(stack), Append(bindings, Top(stack)))
                    ELSE condition_walk(instrs, pc + 1, end, stack, bindings)
               [] op = "DROP" -> condition_walk(instrs, pc + 1, end, stack, PopSeq(bindings))
               [] op \in {"ADD", "SUB", "MUL", "DIV", "MOD", "AND", "OR", "XOR", "SHL", "SHR"} ->
                    condition_walk(instrs, pc + 1, end, PushSecond(stack), bindings)
               [] op \in {"NEG", "NOT"} ->
                    condition_walk(instrs, pc + 1, end,
                        IF Len(stack) > 0 THEN stack ELSE <<"None">>, bindings)
               [] op \in {"EQ", "NEQ", "LT", "GT", "LTE", "GTE"} ->
                    condition_walk(instrs, pc + 1, end, Append(PopN(stack, 2), "Bool"), bindings)
               [] op = "TYPEOF" ->
                    condition_walk(instrs, pc + 1, end, Append(stack, "Bool"), bindings)
               [] op = "ASSERT" -> condition_walk(instrs, pc + 1, end, PopSeq(stack), bindings)
               [] OTHER -> condition_walk(instrs, pc + 1, end, stack, bindings)

condition_produces_bool(instrs, start, len, initial_bindings) ==
    LET stack == condition_walk(instrs, start, start + len, <<>>, initial_bindings)
    IN  Len(stack) > 0 /\ Top(stack) = "Bool"

RECURSIVE contract_blocks(_, _, _, _, _)
contract_blocks(instrs, blocks, k, bindings, kind) ==
    IF k > Len(blocks) THEN <<>>
    ELSE (IF ~condition_produces_bool(instrs, blocks[k][2], blocks[k][3], bindings)
          THEN <<VerifyError(kind, blocks[k][1], 0)>> ELSE <<>>)
         \o contract_blocks(instrs, blocks, k + 1, bindings, kind)

RECURSIVE check_contracts_from(_, _, _)
check_contracts_from(instrs, functions, k) ==
    IF k > Len(functions) THEN <<>>
    ELSE LET func == functions[k]
         IN  contract_blocks(instrs, func.pre_conditions, 1, func.param_types,
                             "PreConditionNotBool")
             \o contract_blocks(instrs, func.post_conditions, 1,
                                Append(func.param_types, "None"), "PostConditionNotBool")
             \o check_contracts_from(instrs, functions, k + 1)

check_contracts(instrs, ctx) == check_contracts_from(instrs, ctx.functions, 1)

(***************************************************************************)
(* Pass 8: reachability (verifier/src/reachability.rs).  `reachable` is    *)
(* the set of indices whose flag is true.                                  *)
(***************************************************************************)
\* the indices start..min(start + len, instrs.len()) - 1
SpanIndices(instrs, start, len) == {i \in start..(Min(start + len, Len(instrs)) - 1) : TRUE}

CaseIndices(instrs, cases) ==
    UNION {{cases[k][1]} \cup SpanIndices(instrs, cases[k][1] + 1, cases[k][3]) :
           k \in 1..Len(cases)}

BlockIndices(instrs, blocks) ==
    UNION {{blocks[k][1]} \cup SpanIndices(instrs, blocks[k][2], blocks[k][3]) :
           k \in 1..Len(blocks)}

RECURSIVE mark_reachable(_, _, _, _, _)
mark_reachable(instrs, ctx, pc, end, reachable) ==
    IF ~(pc < end /\ pc < Len(instrs)) THEN reachable
    ELSE IF pc \in reachable THEN mark_reachable(instrs, ctx, pc + 1, end, reachable)
    ELSE LET instr == At(instrs, pc)
             op == instr.opcode
             marked == reachable \cup {pc}
         IN  CASE op \in {"HALT", "RET"} -> marked
               [] op = "CONST_EXT" ->
                    mark_reachable(instrs, ctx, pc + 2, end,
                        IF pc + 1 < Len(instrs) THEN marked \cup {pc + 1} ELSE marked)
               [] op = "MATCH" ->
                    LET mi == find_match(ctx, pc)
                    IN  IF mi # <<>>
                        THEN mark_reachable(instrs, ctx, mi[1].exhaust_pc + 1, end,
                                 marked \cup CaseIndices(instrs, mi[1].cases)
                                        \cup {mi[1].exhaust_pc})
                        ELSE mark_reachable(instrs, ctx, pc + 1, end, marked)
               [] op = "FUNC" -> mark_reachable(instrs, ctx, pc + 1 + instr.arg2 + 1, end, marked)
               [] op = "CASE" -> mark_reachable(instrs, ctx, pc + 1 + instr.arg2, end, marked)
               [] op \in {"PRE", "POST"} ->
                    mark_reachable(instrs, ctx, pc + 1 + instr.arg1, end, marked)
               [] OTHER -> mark_reachable(instrs, ctx, pc + 1, end, marked)

\* the loop body `for func in &ctx.functions`
RECURSIVE reach_functions(_, _, _, _)
reach_functions(instrs, ctx, k, reachable) ==
    IF k > Len(ctx.functions) THEN reachable
    ELSE LET func == ctx.functions[k]
             params == {func.func_pc + j : j \in 1..Len(func.param_types)}
             header == reachable \cup {func.func_pc, func.endfunc_pc} \cup params
                       \cup BlockIndices(instrs, func.pre_conditions)
                       \cup BlockIndices(instrs, func.post_conditions)
             body == mark_reachable(instrs, ctx, func.body_start_pc, func.endfunc_pc, header)
             hashed == IF func.hash_pc # -1 THEN body \cup {func.hash_pc} ELSE body
         IN  reach_functions(instrs, ctx, k + 1, hashed)

RECURSIVE unreachable_errors(_, _, _)
unreachable_errors(len, reachable, i) ==
    IF i >= len THEN <<>>
    ELSE (IF i \notin reachable THEN <<VerifyError("UnreachableInstruction", i, 0)>> ELSE <<>>)
         \o unreachable_errors(len, reachable, i + 1)

\* check_reachability marking the entry-point region only
check_reachability_entry_only(instrs, ctx) ==
    IF Len(instrs) = 0 THEN <<>>
    ELSE LET entry == mark_reachable(instrs, ctx, ctx.entry_point, Len(instrs), {})
         IN  unreachable_errors(Len(instrs), entry, 0)

check_reachability(instrs, ctx) ==
    IF Len(instrs) = 0 THEN <<>>
    ELSE LET entry == mark_reachable(instrs, ctx, ctx.entry_point, Len(instrs), {})
             reachable == reach_functions(instrs, ctx, 1, entry)
         IN  unreachable_errors(Len(instrs), reachable, 0)

(***************************************************************************)
(* verify (verifier/src/lib.rs)                                            *)
(***************************************************************************)
\* the dependent passes with the stack pass left out
dependent_passes_without_stack(instrs, ctx) ==
    check_exhaustion(ctx) \o check_hashing(instrs, ctx) \o check_types(instrs, ctx)
    \o check_contracts(instrs, ctx) \o check_reachability(instrs, ctx)

\* the six passes that run only when the structural pass is not fatal
dependent_passes(instrs, ctx) ==
    check_exhaustion(ctx) \o check_hashing(instrs, ctx) \o check_types(instrs, ctx)
    \o check_contracts(instrs, ctx) \o check_stack(instrs, ctx)
    \o check_reachability(instrs, ctx)

(***************************************************************************)
(* The VM (vm/src/machine.rs, vm/src/execute.rs).  A machine m is a record *)
(* of the VM struct's fields plus                                          *)
(*   status : "running", or how run() ended: "ok" (a value), "err" (a      *)
(*            RuntimeError), "panic" (an index or unwrap panicked),        *)
(*            "abort" (the native stack was exhausted), "diverged" (a      *)
(*            cycle that never ends), "cutoff" (outside the model's bounds)*)
(*   natives: the chain of execute_range activations in progress, each     *)
(*            with the locals of the handler that called it                *)
(***************************************************************************)
RuntimeError(kind, at, info) == [kind |-> kind, at |-> at, info |-> info]

Fail(m, kind, at, info) ==
    [m EXCEPT !.status = "err", !.error = <<RuntimeError(kind, at, info)>>]

Cutoff(m) == [m EXCEPT !.status = "cutoff"]

\* VM::new
NewVM ==
    [status |-> "running", stack |-> <<>>, bindings |-> <<>>, call_stack |-> <<>>,
     pc |-> 0, functions |-> <<>>, case_contexts |-> <<>>, natives |-> <<>>,
     result |-> <<>>, error |-> <<>>]

\* a push that refuses only a stack already beyond MAX_STACK_DEPTH
push_past_limit(m, value) ==
    IF Len(m.stack) > MAX_STACK_DEPTH THEN Fail(m, "StackOverflow", m.pc, 0)
    ELSE [m EXCEPT !.stack = Append(@, value)]

\* VM::push
push(m, value) ==
    IF Len(m.stack) >= MAX_STACK_DEPTH THEN Fail(m, "StackOverflow", m.pc, 0)
    ELSE [m EXCEPT !.stack = Append(@, value)]

\* VM::pop: the error of a pop on the empty stack; the machine after a pop
pop_fail(m) == Fail(m, "StackUnderflow", m.pc, 0)
popped(m) == [m EXCEPT !.stack = PopSeq(@)]

\* let b = self.pop()?; let a = self.pop()?; then F(machine, a, b)
Pop2(m, F(_, _, _)) ==
    IF Len(m.stack) = 0 THEN pop_fail(m)
    ELSE IF Len(m.stack) = 1 THEN pop_fail(popped(m))
    ELSE F([m EXCEPT !.stack = PopN(@, 2)], m.stack[Len(m.stack) - 1], Top(m.stack))

\* let a = self.pop()?; then F(machine, a)
Pop1(m, F(_, _)) ==
    IF Len(m.stack) = 0 THEN pop_fail(m) ELSE F(popped(m), Top(m.stack))

\* The "type mismatch" arm of the operand handlers
Mismatch(m) == Fail(m, "StackUnderflow", m.pc - 1, 0)

\* VM::check_float followed by push of the F64
push_float(m, w) ==
    IF F64IsNaN(w) THEN Fail(m, "FloatNaN", m.pc, 0)
    ELSE IF F64IsInf(w) THEN Fail(m, "FloatInfinity", m.pc, 0)
    ELSE push(m, VF64(w))

\* VM::scan_functions.  func_pc is not a field of FunctionInfo; it is kept
\* to tell which FUNC instruction an entry was made from.
RECURSIVE scan_spans(_, _, _, _)
scan_spans(instrs, scan_pc, pre_conditions, post_conditions) ==
    IF scan_pc < Len(instrs) /\ At(instrs, scan_pc).opcode = "PRE"
    THEN scan_spans(instrs, scan_pc + 1 + At(instrs, scan_pc).arg1,
                    Append(pre_conditions, <<scan_pc + 1, At(instrs, scan_pc).arg1>>),
                    post_conditions)
    ELSE IF scan_pc < Len(instrs) /\ At(instrs, scan_pc).opcode = "POST"
    THEN scan_spans(instrs, scan_pc + 1 + At(instrs, scan_pc).arg1,
                    pre_conditions,
                    Append(post_conditions, <<scan_pc + 1, At(instrs, scan_pc).arg1>>))
    ELSE [param_count |-> 0, body_start_pc |-> scan_pc,
          pre_conditions |-> pre_conditions, post_conditions |-> post_conditions,
          func_pc |-> 0]

\* The outer loop steps over non-FUNC instructions one at a time; the next
\* iteration that does anything is at the first FUNC at or after pc.
RECURSIVE scan_functions(_, _)
scan_functions(instrs, pc) ==
    LET funcs == {i \in pc..(Len(instrs) - 1) : At(instrs, i).opcode = "FUNC"}
    IN  IF funcs = {} THEN <<>>
        ELSE LET f == CHOOSE i \in funcs : \A j \in funcs : i <= j
             IN  <<[scan_spans(instrs, f + 1, <<>>, <<>>) EXCEPT
                        !.param_count = At(instrs, f).arg1, !.func_pc = f]>>
                 \o scan_functions(instrs, f + 1 + At(instrs, f).arg2 + 1)

\* VM::find_entry_point
find_entry_point(instrs) ==
    LET ends == {i \in 0..(Len(instrs) - 1) : At(instrs, i).opcode = "ENDFUNC"}
    IN  IF ends = {} THEN 0 ELSE (CHOOSE i \in ends : \A j \in ends : j <= i) + 1

\* a HALT that returns the top of any non-empty stack
exec_halt_top_of_any(m) ==
    IF Len(m.stack) = 0 THEN [m EXCEPT !.status = "err",
                                       !.error = <<RuntimeError("HaltWithEmptyStack", 0, 0)>>]
    ELSE [m EXCEPT !.status = "ok", !.result = <<Top(m.stack)>>, !.stack = PopSeq(@)]

\* exec_halt
exec_halt(m) ==
    IF Len(m.stack) = 0 THEN [m EXCEPT !.status = "err",
                                       !.error = <<RuntimeError("HaltWithEmptyStack", 0, 0)>>]
    ELSE IF Len(m.stack) = 1 THEN [m EXCEPT !.status = "ok", !.result = <<Top(m.stack)>>,
                                            !.stack = <<>>]
    ELSE [m EXCEPT !.status = "err",
                   !.error = <<RuntimeError("HaltWithMultipleValues", 0, Len(m.stack))>>]

\* exec_const
exec_const(m, instr) ==
    IF const_value(instr) = <<>> THEN Fail(m, "UnexpectedEndOfProgram", m.pc - 1, 0)
    ELSE push(m, const_value(instr)[1])

\* exec_const_ext
exec_const_ext(m, instr, instrs) ==
    IF m.pc >= Len(instrs) THEN Fail(m, "UnexpectedEndOfProgram", m.pc, 0)
    ELSE LET next == At(instrs, m.pc)
             m1 == [m EXCEPT !.pc = m.pc + 1]
             full_value == <<instr.arg1, next.arg1, next.arg2, next.arg3>>
         IN  CASE instr.type_tag = "I64" -> push(m1, VI64(full_value))
               [] instr.type_tag = "U64" -> push(m1, VU64(full_value))
               [] instr.type_tag = "F64" -> push_float(m1, full_value)
               [] OTHER -> Fail(m1, "UnexpectedEndOfProgram", m1.pc - 2, 0)

\* exec_bind, exec_ref, exec_drop
exec_bind_value(m, value) == [m EXCEPT !.bindings = Append(@, value)]
exec_bind(m) == Pop1(m, exec_bind_value)

\* exec_ref counting the index from the oldest binding
exec_ref_from_oldest(m, instr) ==
    LET index == instr.arg1
        depth == Len(m.bindings)
    IN  IF index >= depth THEN Fail(m, "BindingOutOfRange", m.pc - 1, index)
        ELSE push(m, m.bindings[index + 1])

exec_ref(m, instr) ==
    LET index == instr.arg1
        depth == Len(m.bindings)
    IN  IF index >= depth THEN Fail(m, "BindingOutOfRange", m.pc - 1, index)
        ELSE push(m, m.bindings[depth - index])

exec_drop(m) ==
    IF Len(m.bindings) = 0 THEN Fail(m, "BindingOutOfRange", m.pc - 1, 0)
    ELSE [m EXCEPT !.bindings = PopSeq(@)]

(***************************************************************************)
(* Arithmetic, comparison, logic (execute.rs, Groups B and logic)          *)
(***************************************************************************)
\* 64-bit wrapping helpers on limbs
RECURSIVE Pow2(_)
Pow2(n) == IF n = 0 THEN 1 ELSE 2 * Pow2(n - 1)

\* wrapping multiplication, schoolbook on the eight bytes (least significant first)
BytesLE(a) ==
    <<a[4] % 256, a[4] \div 256, a[3] % 256, a[3] \div 256,
      a[2] % 256, a[2] \div 256, a[1] % 256, a[1] \div 256>>
Column(x, y, k) ==
    LET term(i) == IF i <= k THEN x[i + 1] * y[k - i + 1] ELSE 0
    IN  term(0) + term(1) + term(2) + term(3) + term(4) + term(5) + term(6) + term(7)
MulW(a, b) ==
    LET x == BytesLE(a)
        y == BytesLE(b)
        c0 == Column(x, y, 0)
        c1 == Column(x, y, 1) + (c0 \div 256)
        c2 == Column(x, y, 2) + (c1 \div 256)
        c3 == Column(x, y, 3) + (c2 \div 256)
        c4 == Column(x, y, 4) + (c3 \div 256)
        c5 == Column(x, y, 5) + (c4 \div 256)
        c6 == Column(x, y, 6) + (c5 \div 256)
        c7 == Column(x, y, 7) + (c6 \div 256)
    IN  <<(c7 % 256) * 256 + (c6 % 256), (c5 % 256) * 256 + (c4 % 256),
          (c3 % 256) * 256 + (c2 % 256), (c1 % 256) * 256 + (c0 % 256)>>

\* 2^n as a word, n in 0..63
Pow2W(n) == [i \in 1..4 |-> IF i = 4 - (n \div 16) THEN Pow2(n % 16) ELSE 0]
ShlW(a, n) == MulW(a, Pow2W(n))

\* shift right by n in 0..63: whole limbs first, then bits; `fill` is the limb
\* shifted in (all ones for an arithmetic shift of a negative value)
ShrW(a, n, arithmetic) ==
    LET fill == IF arithmetic /\ IsNegW(a) THEN U16 - 1 ELSE 0
        q == n \div 16
        r == n % 16
        limb(i) == IF i - q >= 1 THEN a[i - q] ELSE fill
        bits(i) == (limb(i - 1) % Pow2(r)) * Pow2(16 - r) + (limb(i) \div Pow2(r))
    IN  [i \in 1..4 |-> bits(i) % U16]

\* truncating division and remainder of small integers
TruncDiv(x, y) ==
    LET q == (IF x < 0 THEN -x ELSE x) \div (IF y < 0 THEN -y ELSE y)
    IN  IF (x < 0) # (y < 0) THEN -q ELSE q
TruncRem(x, y) == x - y * TruncDiv(x, y)

\* f64 comparison on bit patterns of finite values
EqF(a, b) == (F64IsZero(a) /\ F64IsZero(b)) \/ a = b
LtF(a, b) ==
    IF F64IsZero(a) /\ F64IsZero(b) THEN FALSE
    ELSE IF IsNegW(a) # IsNegW(b) THEN IsNegW(a)
    ELSE IF IsNegW(a) THEN LtU(b, a) ELSE LtU(a, b)

\* exec_binary_arith for ADD, SUB, MUL; float results are outside the model
ArithW(op, x, y) ==
    CASE op = "ADD" -> AddW(x, y) [] op = "SUB" -> SubW(x, y) [] OTHER -> MulW(x, y)

binary_arith(op, m, a, b) ==
    CASE a.t = "I64" /\ b.t = "I64" -> push(m, VI64(ArithW(op, a.w, b.w)))
      [] a.t = "U64" /\ b.t = "U64" -> push(m, VU64(ArithW(op, a.w, b.w)))
      [] a.t = "F64" /\ b.t = "F64" -> Cutoff(m)
      [] OTHER -> Mismatch(m)
add_values(m, a, b) == binary_arith("ADD", m, a, b)
sub_values(m, a, b) == binary_arith("SUB", m, a, b)
mul_values(m, a, b) == binary_arith("MUL", m, a, b)

\* exec_div, exec_mod; quotients of operands beyond 16 bits are outside the model
div_values(m, a, b) ==
    CASE a.t = "I64" /\ b.t = "I64" ->
            IF b.w = Zero4 THEN Fail(m, "DivisionByZero", m.pc - 1, 0)
            ELSE IF SmallS(a.w) /\ SmallS(b.w)
            THEN push(m, VI64(FromInt(TruncDiv(ToInt(a.w), ToInt(b.w)))))
            ELSE Cutoff(m)
      [] a.t = "U64" /\ b.t = "U64" ->
            IF b.w = Zero4 THEN Fail(m, "DivisionByZero", m.pc - 1, 0)
            ELSE IF SmallU(a.w) /\ SmallU(b.w)
            THEN push(m, VU64(FromInt(a.w[4] \div b.w[4])))
            ELSE Cutoff(m)
      [] a.t = "F64" /\ b.t = "F64" ->
            IF F64IsZero(b.w) THEN Fail(m, "DivisionByZero", m.pc - 1, 0) ELSE Cutoff(m)
      [] OTHER -> Mismatch(m)

mod_values(m, a, b) ==
    CASE a.t = "I64" /\ b.t = "I64" ->
            IF b.w = Zero4 THEN Fail(m, "DivisionByZero", m.pc - 1, 0)
            ELSE IF SmallS(a.w) /\ SmallS(b.w)
            THEN push(m, VI64(FromInt(TruncRem(ToInt(a.w), ToInt(b.w)))))
            ELSE Cutoff(m)
      [] a.t = "U64" /\ b.t = "U64" ->
            IF b.w = Zero4 THEN Fail(m, "DivisionByZero", m.pc - 1, 0)
            ELSE IF SmallU(a.w) /\ SmallU(b.w)
            THEN push(m, VU64(FromInt(a.w[4] % b.w[4])))
            ELSE Cutoff(m)
      [] OTHER -> Mismatch(m)

\* exec_neg
neg_value(m, a) ==
    CASE a.t = "I64" -> push(m, VI64(NegW(a.w)))
      [] a.t = "F64" ->
            push_float(m, <<(a.w[1] + 32768) % U16, a.w[2], a.w[3], a.w[4]>>)
      [] OTHER -> Mismatch(m)

\* exec_comparison
Compare(op, lt, eq) ==
    CASE op = "EQ" -> eq [] op = "NEQ" -> ~eq [] op = "LT" -> lt
      [] op = "GT" -> ~lt /\ ~eq [] op = "LTE" -> lt \/ eq [] OTHER -> ~lt

comparison(op, m, a, b) ==
    CASE a.t = "I64" /\ b.t = "I64" -> push(m, VBool(Compare(op, LtS(a.w, b.w), a.w = b.w)))
      [] a.t = "F64" /\ b.t = "F64" -> push(m, VBool(Compare(op, LtF(a.w, b.w), EqF(a.w, b.w))))
      [] a.t = b.t /\ a.t \in {"U64", "Bool", "Char"} ->
            push(m, VBool(Compare(op, LtU(a.w, b.w), a.w = b.w)))
      [] OTHER -> Mismatch(m)
eq_values(m, a, b) == comparison("EQ", m, a, b)
neq_values(m, a, b) == comparison("NEQ", m, a, b)
lt_values(m, a, b) == comparison("LT", m, a, b)
gt_values(m, a, b) == comparison("GT", m, a, b)
lte_values(m, a, b) == comparison("LTE", m, a, b)
gte_values(m, a, b) == comparison("GTE", m, a, b)

\* exec_logic_and / or / xor / not
logic(f, m, a, b) ==
    IF a.t = b.t /\ a.t \in {"Bool", "I64", "U64"}
    THEN push(m, Value(a.t, BitW(f, a.w, b.w), 0, <<>>))
    ELSE Mismatch(m)
and_values(m, a, b) == logic("and", m, a, b)
or_values(m, a, b) == logic("or", m, a, b)
xor_values(m, a, b) == logic("xor", m, a, b)

not_value(m, a) ==
    CASE a.t = "Bool" -> push(m, VBool(~IsTrue(a)))
      [] a.t \in {"I64", "U64"} -> push(m, Value(a.t, NotW(a.w), 0, <<>>))
      [] OTHER -> Mismatch(m)

\* exec_shift_left, exec_shift_right: the amount is (s as u32) masked to 6 bits
shl_values(m, value, shift) ==
    IF value.t = shift.t /\ value.t \in {"I64", "U64"}
    THEN push(m, Value(value.t, ShlW(value.w, shift.w[4] % 64), 0, <<>>))
    ELSE Mismatch(m)
shr_values(m, value, shift) ==
    IF value.t = shift.t /\ value.t \in {"I64", "U64"}
    THEN push(m, Value(value.t, ShrW(value.w, shift.w[4] % 64, value.t = "I64"), 0, <<>>))
    ELSE Mismatch(m)

(***************************************************************************)
(* Pattern matching and data structures (execute.rs, Groups C and E)       *)
(***************************************************************************)
\* The CASE scan of exec_match: the error it returns, or the matched body
\* (start -1: none) and the position reached after variant_count entries
RECURSIVE match_scan(_, _, _, _, _)
match_scan(instrs, scan_pc, remaining, tag, found) ==
    IF remaining = 0 THEN [err |-> <<>>, scan_pc |-> scan_pc, start |-> found[1], len |-> found[2]]
    ELSE IF scan_pc >= Len(instrs)
    THEN [err |-> <<RuntimeError("UnexpectedEndOfProgram", scan_pc, 0)>>,
          scan_pc |-> scan_pc, start |-> -1, len |-> 0]
    ELSE IF At(instrs, scan_pc).opcode # "CASE"
    THEN [err |-> <<RuntimeError("NoMatchingCase", scan_pc, tag)>>,
          scan_pc |-> scan_pc, start |-> -1, len |-> 0]
    ELSE LET case_instr == At(instrs, scan_pc)
             hit == case_instr.arg1 = tag /\ found[1] = -1
         IN  match_scan(instrs, scan_pc + 1 + case_instr.arg2, remaining - 1, tag,
                        IF hit THEN <<scan_pc + 1, case_instr.arg2>> ELSE found)

\* match_value entering the body without pushing a Variant's payload
match_value_without_payload(m, instr, instrs, matched_value) ==
    IF matched_value.t \notin {"Bool", "Variant"} THEN Fail(m, "NoMatchingCase", m.pc - 1, 0)
    ELSE LET tag == matched_value.w[4]
             scan == match_scan(instrs, m.pc, instr.arg1, tag, <<-1, 0>>)
             after_exhaust_pc == scan.scan_pc + 1
         IN  IF scan.err # <<>> THEN [m EXCEPT !.status = "err", !.error = scan.err]
             ELSE IF scan.start = -1 THEN Fail(m, "NoMatchingCase", m.pc - 1, tag)
             ELSE [m EXCEPT
                       !.pc = scan.start,
                       !.case_contexts = Append(@, <<scan.start + scan.len, after_exhaust_pc>>)]

match_value(m, instr, instrs, matched_value) ==
    IF matched_value.t \notin {"Bool", "Variant"} THEN Fail(m, "NoMatchingCase", m.pc - 1, 0)
    ELSE LET tag == matched_value.w[4]
             scan == match_scan(instrs, m.pc, instr.arg1, tag, <<-1, 0>>)
             after_exhaust_pc == scan.scan_pc + 1
             with_payload == IF matched_value.t = "Variant" THEN push(m, matched_value.p[1]) ELSE m
         IN  IF scan.err # <<>> THEN [m EXCEPT !.status = "err", !.error = scan.err]
             ELSE IF scan.start = -1 THEN Fail(m, "NoMatchingCase", m.pc - 1, tag)
             ELSE IF with_payload.status # "running" THEN with_payload
             ELSE [with_payload EXCEPT
                       !.pc = scan.start,
                       !.case_contexts = Append(@, <<scan.start + scan.len, after_exhaust_pc>>)]

exec_match(m, instr, instrs) ==
    IF Len(m.stack) = 0 THEN pop_fail(m)
    ELSE match_value(popped(m), instr, instrs, Top(m.stack))

\* exec_variant_new
exec_variant_new(m, instr) ==
    IF Len(m.stack) = 0 THEN pop_fail(m)
    ELSE push(popped(m), VVariant(instr.arg1, instr.arg2, Top(m.stack)))

\* exec_tuple_new / exec_array_new: pop n values, the first popped is the last field
exec_collect(m, n, make(_)) ==
    IF Len(m.stack) < n THEN pop_fail([m EXCEPT !.stack = <<>>])
    ELSE push([m EXCEPT !.stack = PopN(@, n)],
              make(SubSeq(m.stack, Len(m.stack) - n + 1, Len(m.stack))))
exec_tuple_new(m, instr) == exec_collect(m, instr.arg1, VTuple)
exec_array_new(m, instr) == exec_collect(m, instr.arg1, VArray)

\* exec_project
project_value(m, instr, tuple) ==
    IF tuple.t # "Tuple" THEN Fail(m, "ProjectOnNonTuple", m.pc - 1, 0)
    ELSE IF instr.arg1 >= Len(tuple.p) THEN Fail(m, "ProjectOutOfBounds", m.pc - 1, instr.arg1)
    ELSE push(m, tuple.p[instr.arg1 + 1])
exec_project(m, instr) ==
    IF Len(m.stack) = 0 THEN pop_fail(m) ELSE project_value(popped(m), instr, Top(m.stack))

\* exec_array_get
array_get_values(m, array_val, index_val) ==
    IF index_val.t # "U64" THEN Fail(m, "NotAnArray", m.pc - 1, 0)
    ELSE IF array_val.t # "Array" THEN Fail(m, "NotAnArray", m.pc - 1, 0)
    ELSE IF ~SmallU(index_val.w) \/ index_val.w[4] >= Len(array_val.p)
    THEN Fail(m, "ArrayIndexOutOfBounds", m.pc - 1, Len(array_val.p))
    ELSE push(m, array_val.p[index_val.w[4] + 1])

\* exec_array_len
array_len_value(m, array_val) ==
    IF array_val.t # "Array" THEN Fail(m, "NotAnArray", m.pc - 1, 0)
    ELSE push(m, VU64(FromInt(Len(array_val.p))))

\* exec_assert
assert_value(m, val) == IF IsTrue(val) THEN m ELSE Fail(m, "AssertFailed", m.pc - 1, 0)

\* exec_typeof
exec_typeof(m, instr) ==
    LET expected == TypeTagFromByte(instr.arg1 % 256)
    IN  IF expected = "<reserved>" THEN Fail(m, "UnexpectedEndOfProgram", m.pc - 1, 0)
        ELSE IF Len(m.stack) = 0 THEN pop_fail(m)
        ELSE LET value == Top(m.stack)
                 back == push(popped(m), value)
             IN  IF back.status # "running" THEN back
                 ELSE push(back, VBool(ValueTypeTag(value) = expected))

(***************************************************************************)
(* Functions (execute.rs, Group D).  exec_call, exec_recurse and exec_ret  *)
(* call execute_range for each PRE / POST span; a handler suspended in     *)
(* such a call is an entry of m.natives holding its locals.                *)
(***************************************************************************)
CallFrame(return_pc, saved_binding_depth, body_start_pc, recursion_depth, post_conditions, func_index) ==
    [return_pc |-> return_pc, saved_binding_depth |-> saved_binding_depth,
     body_start_pc |-> body_start_pc, recursion_depth |-> recursion_depth,
     post_conditions |-> post_conditions, func_index |-> func_index]

\* the tail of exec_call / exec_recurse: push the frame, jump to the body
push_frame(m, p) ==
    LET func_info == At(m.functions, p.func_index)
    IN  IF Len(m.call_stack) >= MaxFrames THEN Cutoff(m)
        ELSE [m EXCEPT !.call_stack =
                           Append(@, CallFrame(m.pc, p.saved_binding_depth,
                                               func_info.body_start_pc, p.recursion_depth,
                                               func_info.post_conditions, p.func_index)),
                       !.pc = func_info.body_start_pc]

\* the tail of exec_ret: restore the environment, return, push the value
finish_ret(m, call_frame, return_value, had_post) ==
    push([m EXCEPT !.bindings = Truncate(IF had_post THEN PopSeq(@) ELSE @,
                                         call_frame.saved_binding_depth),
                   !.pc = call_frame.return_pc],
         return_value)

\* the head of the `for` loop over the spans: enter execute_range on the next
\* span (saved_pc = pc; pc = start_pc), or run the handler's tail
continue_spans(m, p) ==
    IF p.spans = <<>>
    THEN IF p.kind = "ret" THEN finish_ret(m, p.frame[1], p.retval[1], TRUE)
         ELSE push_frame(m, p)
    ELSE IF Len(m.natives) >= MaxNative THEN Cutoff(m)
    ELSE [m EXCEPT !.natives = Append(@, [kind |-> p.kind, func_index |-> p.func_index,
                                          saved_binding_depth |-> p.saved_binding_depth,
                                          recursion_depth |-> p.recursion_depth,
                                          spans |-> Tail(p.spans),
                                          retval |-> p.retval, frame |-> p.frame,
                                          saved_pc |-> m.pc,
                                          end_pc |-> p.spans[1][1] + p.spans[1][2]]),
                   !.pc = p.spans[1][1]]

\* begin_call binding the arguments in the order they are popped
begin_call_reversed(m, kind, func_index, recursion_depth) ==
    LET func_info == At(m.functions, func_index)
        n == func_info.param_count
    IN  IF Len(m.stack) < n THEN pop_fail([m EXCEPT !.stack = <<>>])
        ELSE continue_spans(
                 [m EXCEPT !.stack = PopN(@, n),
                           !.bindings = @ \o Reverse(SubSeq(m.stack, Len(m.stack) - n + 1,
                                                            Len(m.stack)))],
                 [kind |-> kind, func_index |-> func_index,
                  saved_binding_depth |-> Len(m.bindings),
                  recursion_depth |-> recursion_depth,
                  spans |-> func_info.pre_conditions, retval |-> <<>>, frame |-> <<>>])

\* pop the arguments, bind them, then the PRE loop (shared by CALL and RECURSE)
begin_call(m, kind, func_index, recursion_depth) ==
    LET func_info == At(m.functions, func_index)
        n == func_info.param_count
    IN  IF Len(m.stack) < n THEN pop_fail([m EXCEPT !.stack = <<>>])
        ELSE continue_spans(
                 [m EXCEPT !.stack = PopN(@, n),
                           !.bindings = @ \o SubSeq(m.stack, Len(m.stack) - n + 1, Len(m.stack))],
                 [kind |-> kind, func_index |-> func_index,
                  saved_binding_depth |-> Len(m.bindings),
                  recursion_depth |-> recursion_depth,
                  spans |-> func_info.pre_conditions, retval |-> <<>>, frame |-> <<>>])

exec_call(m, instr) ==
    IF instr.arg1 >= Len(m.functions) THEN Fail(m, "UnknownFunction", m.pc - 1, instr.arg1)
    ELSE begin_call(m, "call", instr.arg1, 0)

\* exec_recurse refusing only a current depth above the limit
exec_recurse_above_limit(m, instr) ==
    IF Len(m.call_stack) = 0 THEN Fail(m, "UnexpectedEndOfProgram", m.pc - 1, 0)
    ELSE LET current_frame == Top(m.call_stack)
         IN  IF current_frame.recursion_depth > instr.arg1
             THEN Fail(m, "RecursionDepthExceeded", m.pc - 1, instr.arg1)
             ELSE begin_call(m, "recurse", current_frame.func_index,
                             current_frame.recursion_depth + 1)

exec_recurse(m, instr) ==
    IF Len(m.call_stack) = 0 THEN Fail(m, "UnexpectedEndOfProgram", m.pc - 1, 0)
    ELSE LET current_frame == Top(m.call_stack)
         IN  IF current_frame.recursion_depth >= instr.arg1
             THEN Fail(m, "RecursionDepthExceeded", m.pc - 1, instr.arg1)
             ELSE begin_call(m, "recurse", current_frame.func_index,
                             current_frame.recursion_depth + 1)

exec_ret(m) ==
    IF Len(m.stack) = 0 THEN pop_fail(m)
    ELSE IF Len(m.call_stack) = 0 THEN Fail(popped(m), "UnexpectedEndOfProgram", m.pc - 1, 0)
    ELSE LET return_value == Top(m.stack)
             call_frame == Top(m.call_stack)
             m1 == [m EXCEPT !.stack = PopSeq(@), !.call_stack = PopSeq(@)]
         IN  IF call_frame.post_conditions = <<>>
             THEN finish_ret(m1, call_frame, return_value, FALSE)
             ELSE continue_spans(
                      [m1 EXCEPT !.bindings = Append(@, return_value)],
                      [kind |-> "ret", func_index |-> call_frame.func_index,
                       saved_binding_depth |-> call_frame.saved_binding_depth,
                       recursion_depth |-> call_frame.recursion_depth,
                       spans |-> call_frame.post_conditions,
                       retval |-> <<return_value>>, frame |-> <<call_frame>>])

\* execute_range after its loop, and the caller's check of the condition:
\* pc = saved_pc; condition = pop()?; Bool(true) or the contract error
range_end(m) ==
    LET n == Top(m.natives)
        m1 == [m EXCEPT !.pc = n.saved_pc, !.natives = PopSeq(@)]
    IN  IF Len(m1.stack) = 0 THEN pop_fail(m1)
        ELSE IF ~IsTrue(Top(m1.stack))
        THEN Fail(popped(m1),
                  IF n.kind = "ret" THEN "PostconditionFailed" ELSE "PreconditionFailed",
                  m1.pc - 1, 0)
        ELSE continue_spans(popped(m1), n)

(***************************************************************************)
(* Dispatch: the match of execute (in_range FALSE) and of execute_one      *)
(* (in_range TRUE); m.pc is already past the instruction                   *)
(***************************************************************************)
exec_instr(m, instr, instrs, in_range) ==
    LET op == instr.opcode
    IN  CASE op = "HALT" -> IF in_range THEN m ELSE exec_halt(m)
          [] op = "CONST" -> exec_const(m, instr)
          [] op = "CONST_EXT" -> exec_const_ext(m, instr, instrs)
          [] op = "BIND" -> exec_bind(m)
          [] op = "REF" -> exec_ref(m, instr)
          [] op = "DROP" -> exec_drop(m)
          [] op = "ADD" -> Pop2(m, add_values)
          [] op = "SUB" -> Pop2(m, sub_values)
          [] op = "MUL" -> Pop2(m, mul_values)
          [] op = "DIV" -> Pop2(m, div_values)
          [] op = "MOD" -> Pop2(m, mod_values)
          [] op = "NEG" -> Pop1(m, neg_value)
          [] op = "EQ" -> Pop2(m, eq_values)
          [] op = "NEQ" -> Pop2(m, neq_values)
          [] op = "LT" -> Pop2(m, lt_values)
          [] op = "GT" -> Pop2(m, gt_values)
          [] op = "LTE" -> Pop2(m, lte_values)
          [] op = "GTE" -> Pop2(m, gte_values)
          [] op = "AND" -> Pop2(m, and_values)
          [] op = "OR" -> Pop2(m, or_values)
          [] op = "NOT" -> Pop1(m, not_value)
          [] op = "XOR" -> Pop2(m, xor_values)
          [] op = "SHL" -> Pop2(m, shl_values)
          [] op = "SHR" -> Pop2(m, shr_values)
          [] op = "MATCH" -> exec_match(m, instr, instrs)
          [] op = "CASE" -> [m EXCEPT !.pc = @ + instr.arg2]
          [] op = "FUNC" -> [m EXCEPT !.pc = @ + instr.arg2 + 1]
          [] op \in {"PRE", "POST"} -> [m EXCEPT !.pc = @ + instr.arg1]
          [] op = "CALL" -> exec_call(m, instr)
          [] op = "RECURSE" -> exec_recurse(m, instr)
          [] op = "RET" -> exec_ret(m)
          [] op = "VARIANT_NEW" -> exec_variant_new(m, instr)
          [] op = "TUPLE_NEW" -> exec_tuple_new(m, instr)
          [] op = "PROJECT" -> exec_project(m, instr)
          [] op = "ARRAY_NEW" -> exec_array_new(m, instr)
          [] op = "ARRAY_GET" -> Pop2(m, array_get_values)
          [] op = "ARRAY_LEN" -> Pop1(m, array_len_value)
          [] op = "ASSERT" -> Pop1(m, assert_value)
          [] op = "TYPEOF" -> exec_typeof(m, instr)
          [] OTHER -> m

\* A CALL that leaves the machine exactly as it found it, but for one more
\* call frame (loops) or one more execute_range activation that will fetch the
\* same CALL again (recurses natively), repeats without end: a CALL reads
\* neither the call stack nor the native chain.
SameButDeeper(m0, m1) ==
    /\ m1.status = "running" /\ m1.pc = m0.pc
    /\ m1.stack = m0.stack /\ m1.bindings = m0.bindings
    /\ m1.case_contexts = m0.case_contexts
CallLoops(m0, m1) ==
    /\ SameButDeeper(m0, m1) /\ m1.natives = m0.natives
    /\ Len(m1.call_stack) = Len(m0.call_stack) + 1
CallRecursesNatively(m0, m1) ==
    /\ SameButDeeper(m0, m1) /\ m1.call_stack = m0.call_stack
    /\ Len(m1.natives) = Len(m0.natives) + 1
    /\ m1.pc < Top(m1.natives).end_pc

\* fetch()?; pc += 1; the handler
step(m, instrs, in_range) ==
    IF m.pc >= Len(instrs) THEN Fail(m, "UnexpectedEndOfProgram", m.pc, 0)
    ELSE LET instr == At(instrs, m.pc)
             m1 == exec_instr([m EXCEPT !.pc = @ + 1], instr, instrs, in_range)
         IN  IF instr.opcode = "CALL" /\ CallLoops(m, m1) THEN [m1 EXCEPT !.status = "diverged"]
             ELSE IF instr.opcode = "CALL" /\ CallRecursesNatively(m, m1)
             THEN [m1 EXCEPT !.status = "abort"]
             ELSE m1

(***************************************************************************)
(* Programs explored                                                       *)
(***************************************************************************)
Const(tt, a1, a2) == Instruction("CONST", tt, a1, a2, 0)
PlaceHash == Instruction("HASH", "None", 0, 0, 0)

\* the program with instrs[hash_pc] replaced by compute_func_hash
WithHash(instrs, func_pc, hash_pc) ==
    [instrs EXCEPT ![hash_pc + 1] = compute_func_hash(instrs, func_pc, hash_pc)]

Alphabet ==
    {I0("HALT"), Const("I64", 0, 1), Const("Bool", 1, 0),
     Instruction("CONST_EXT", "I64", 0, 0, 0), I2("FUNC", 0, 0), I0("ENDFUNC"),
     I1("CALL", 0), I0("RET"), I1("REF", 0), I1("REF", 5000), I0("BIND"), I0("ADD"),
     I1("MATCH", 1), I2("CASE", 0, 0), I0("EXHAUST"), I1("NOP", 1),
     I1("RECURSE", 2000), I1("PRE", 0), I1("TYPEOF", 4)}

RECURSIVE SeqsOfLen(_)
SeqsOfLen(n) ==
    IF n = 0 THEN {<<>>}
    ELSE {Append(p, i) : p \in SeqsOfLen(n - 1), i \in Alphabet}

ShortPrograms == UNION {SeqsOfLen(n) : n \in 1..MaxLen}

\* identity function with one I64 parameter, called once
FnIdentity ==
    WithHash(<<I2("FUNC", 1, 4), Instruction("PARAM", "I64", 0, 0, 0), I1("REF", 0), I0("RET"),
               PlaceHash, I0("ENDFUNC"), Const("I64", 0, 42), I1("CALL", 0), I0("HALT")>>, 0, 4)
FnWrongHash == [FnIdentity EXCEPT ![5] = Instruction("HASH", "None", 1, 2, 3)]

\* a function whose body calls itself with CALL, and never returns
FnCallsItself ==
    WithHash(<<I2("FUNC", 0, 2), I1("CALL", 0), PlaceHash, I0("ENDFUNC"),
               Const("I64", 0, 1), I1("CALL", 0), I0("HALT")>>, 0, 2)

\* a function whose PRE span calls the function
PreCallsItself ==
    <<I2("FUNC", 0, 3), I1("PRE", 1), I1("CALL", 0), I0("RET"), I0("ENDFUNC"),
      I1("CALL", 0), I0("HALT")>>

\* PRE and POST on a function without parameters
PrePostPass ==
    WithHash(<<I2("FUNC", 0, 7), I1("PRE", 1), Const("Bool", 1, 0), I1("POST", 1),
               Const("Bool", 1, 0), Const("I64", 0, 7), I0("RET"), PlaceHash, I0("ENDFUNC"),
               I1("CALL", 0), I0("HALT")>>, 0, 7)
PreFails == [PrePostPass EXCEPT ![3] = Const("Bool", 0, 0)]
PostFails == [PrePostPass EXCEPT ![5] = Const("Bool", 0, 0)]

\* a HALT inside a PRE span
HaltInPre ==
    WithHash(<<I2("FUNC", 0, 6), I1("PRE", 2), I0("HALT"), Const("Bool", 1, 0),
               Const("I64", 0, 7), I0("RET"), PlaceHash, I0("ENDFUNC"),
               Const("I64", 0, 1), I1("CALL", 0), I0("HALT")>>, 0, 6)

\* PRE declared after a PARAM
ParamThenPre ==
    WithHash(<<I2("FUNC", 1, 6), Instruction("PARAM", "I64", 0, 0, 0), I1("PRE", 1),
               Const("Bool", 0, 0), I1("REF", 0), I0("RET"), PlaceHash, I0("ENDFUNC"),
               Const("I64", 0, 5), I1("CALL", 0), I0("HALT")>>, 0, 6)

\* POST declared after a PARAM
ParamThenPost ==
    WithHash(<<I2("FUNC", 1, 6), Instruction("PARAM", "I64", 0, 0, 0), I1("POST", 1),
               Const("Bool", 0, 0), I1("REF", 0), I0("RET"), PlaceHash, I0("ENDFUNC"),
               Const("I64", 0, 5), I1("CALL", 0), I0("HALT")>>, 0, 6)

\* two parameters: a1 - a2
TwoParams ==
    WithHash(<<I2("FUNC", 2, 7), Instruction("PARAM", "I64", 0, 0, 0),
               Instruction("PARAM", "I64", 0, 0, 0), I1("REF", 1), I1("REF", 0), I0("SUB"),
               I0("RET"), PlaceHash, I0("ENDFUNC"),
               Const("I64", 0, 7), Const("I64", 0, 3), I1("CALL", 0), I0("HALT")>>, 0, 7)

\* a PRE span that leaves a binding behind (param_count 1, no PARAM)
PreBinds ==
    <<I2("FUNC", 1, 6), I1("PRE", 3), Const("I64", 0, 9), I0("BIND"), Const("Bool", 1, 0),
      I1("REF", 0), I0("RET"), I0("ENDFUNC"), Const("I64", 0, 5), I1("CALL", 0), I0("HALT")>>

\* a CASE body that calls a function defined after it
CallLaterFromCase ==
    WithHash(
        WithHash(<<I2("FUNC", 1, 11), Instruction("PARAM", "I64", 0, 0, 0),
                   Const("Bool", 1, 0), I1("MATCH", 2), I2("CASE", 0, 1), Const("I64", 0, 0),
                   I2("CASE", 1, 2), I1("REF", 0), I1("CALL", 1), I0("EXHAUST"), I0("RET"),
                   PlaceHash, I0("ENDFUNC"),
                   I2("FUNC", 1, 4), Instruction("PARAM", "I64", 0, 0, 0), I1("REF", 0),
                   I0("RET"), PlaceHash, I0("ENDFUNC"),
                   Const("I64", 0, 5), I1("CALL", 0), I0("HALT")>>, 0, 11), 13, 17)

\* bounded recursion
FnRecurse ==
    WithHash(<<I2("FUNC", 1, 5), Instruction("PARAM", "I64", 0, 0, 0), I1("REF", 0),
               I1("RECURSE", 2), I0("RET"), PlaceHash, I0("ENDFUNC"),
               Const("I64", 0, 5), I1("CALL", 0), I0("HALT")>>, 0, 5)

MatchBool ==
    <<Const("Bool", 1, 0), I1("MATCH", 2), I2("CASE", 0, 1), Const("I64", 0, 0),
      I2("CASE", 1, 1), Const("I64", 0, 1), I0("EXHAUST"), I0("HALT")>>
MatchVariant ==
    <<Const("I64", 0, 9), Instruction("VARIANT_NEW", "None", 2, 1, 0), I1("MATCH", 2),
      I2("CASE", 0, 0), I2("CASE", 1, 1), I0("NEG"), I0("EXHAUST"), I0("HALT")>>
MatchDescending ==
    <<Const("Bool", 1, 0), I1("MATCH", 2), I2("CASE", 1, 0), I2("CASE", 0, 0),
      I0("EXHAUST"), I0("HALT")>>
MatchTagMax ==
    <<Const("Bool", 1, 0), I1("MATCH", 2), I2("CASE", 65535, 0), I2("CASE", 0, 0),
      I0("EXHAUST"), I0("HALT")>>

\* a FUNC instruction in the carrier slot of a CONST_EXT, and inside a CASE body
FuncAsCarrier == <<Instruction("CONST_EXT", "I64", 0, 0, 0), I2("FUNC", 0, 0), I0("HALT")>>
FuncInCase ==
    <<Const("Bool", 0, 0), I1("MATCH", 1), I2("CASE", 0, 3), I2("FUNC", 0, 0), I0("ENDFUNC"),
      Const("I64", 0, 1), I0("EXHAUST"), I0("HALT")>>

Arithmetic ==
    <<Const("I64", 0, 6), Const("I64", 65535, 65535), I0("MUL"), Const("I64", 0, 4), I0("DIV"),
      Const("I64", 0, 1), I0("SHL"), I0("NEG"), Const("I64", 0, 3), I0("LT"),
      I0("ASSERT"), Const("U64", 0, 2), Const("U64", 0, 3), I1("TUPLE_NEW", 2),
      I1("PROJECT", 1), I0("HALT")>>

\* an ENDFUNC instruction in the carrier slot of a CONST_EXT
EndFuncAsCarrier == <<Instruction("CONST_EXT", "I64", 0, 0, 0), I0("ENDFUNC"), I0("HALT")>>

\* DROP with an empty operand stack
BindDrop == <<Const("I64", 0, 1), I0("BIND"), I0("DROP"), Const("I64", 0, 2), I0("HALT")>>

\* a callee that drops more bindings than the call bound
DropInCallee ==
    WithHash(<<I2("FUNC", 1, 8), Instruction("PARAM", "I64", 0, 0, 0),
               Const("I64", 0, 0), Const("I64", 0, 0), I0("DROP"), I0("DROP"),
               Const("I64", 0, 2), I0("RET"), PlaceHash, I0("ENDFUNC"),
               Const("I64", 0, 1), I0("BIND"), Const("I64", 0, 5), I1("CALL", 0),
               I0("HALT")>>, 0, 8)

\* a RET inside a CASE body: the frame is left while the case context stays
RetInCase ==
    WithHash(<<I2("FUNC", 1, 12), Instruction("PARAM", "I64", 0, 0, 0),
               Const("Bool", 1, 0), I1("MATCH", 2), I2("CASE", 0, 2), Const("I64", 0, 0),
               I0("RET"), I2("CASE", 1, 2), I1("REF", 0), I0("RET"), I0("EXHAUST"),
               I0("RET"), PlaceHash, I0("ENDFUNC"),
               Const("I64", 0, 5), I1("CALL", 0), I0("HALT")>>, 0, 12)

\* a MATCH inside a PRE span, with instructions of the span after its EXHAUST
MatchInPre ==
    WithHash(<<I2("FUNC", 0, 13), I1("PRE", 9),
               Const("Bool", 0, 0), I1("MATCH", 2), I2("CASE", 0, 1), Const("Bool", 1, 0),
               I2("CASE", 1, 1), Const("Bool", 0, 0), I0("EXHAUST"), I0("NOT"), I0("NOT"),
               Const("I64", 0, 7), I0("RET"), PlaceHash, I0("ENDFUNC"),
               I1("CALL", 0), I0("HALT")>>, 0, 13)

\* two CASE branches in ascending order whose tags are not 0 and 1
MatchTagGap ==
    <<Const("Bool", 1, 0), I1("MATCH", 2), I2("CASE", 0, 1), Const("I64", 0, 0),
      I2("CASE", 5, 1), Const("I64", 0, 1), I0("EXHAUST"), I0("HALT")>>

\* CASE bodies that leave nothing in place of the selector
MatchEmptyBodies ==
    <<Const("Bool", 1, 0), I1("MATCH", 2), I2("CASE", 0, 0), I2("CASE", 1, 0), I0("EXHAUST"),
      I0("HALT")>>

\* a MATCH whose unused arg2 is not zero
MatchUnusedField ==
    <<Const("Bool", 1, 0), I2("MATCH", 2, 7), I2("CASE", 0, 1), Const("I64", 0, 0),
      I2("CASE", 1, 1), Const("I64", 0, 1), I0("EXHAUST"), I0("HALT")>>

\* a FUNC inside an open function, and a function whose ENDFUNC the scan skips
NestedFunc == <<I2("FUNC", 0, 1), I2("FUNC", 0, 0), I0("ENDFUNC"), I0("HALT")>>
FuncOpenAtEnd == <<I2("FUNC", 0, 1), Instruction("CONST_EXT", "I64", 0, 0, 0), I0("ENDFUNC")>>

\* REF inside CASE bodies with no binding in scope
RefInCase ==
    <<Const("Bool", 1, 0), I1("MATCH", 2), I2("CASE", 0, 1), I1("REF", 0),
      I2("CASE", 1, 1), I1("REF", 0), I0("EXHAUST"), I0("HALT")>>

\* an instruction after the RET of a body and one after the HALT
DeadCode ==
    WithHash(<<I2("FUNC", 1, 5), Instruction("PARAM", "I64", 0, 0, 0), I1("REF", 0), I0("RET"),
               I0("NOP"), PlaceHash, I0("ENDFUNC"),
               Const("I64", 0, 5), I1("CALL", 0), I0("HALT"), I0("HALT")>>, 0, 5)

\* a FUNC block without HASH inside a CASE body, called from the entry region
HiddenFunc ==
    <<Const("Bool", 0, 0), I1("MATCH", 1), I2("CASE", 0, 5), I2("FUNC", 0, 2),
      Const("I64", 0, 7), I0("RET"), I0("ENDFUNC"), I0("NOP"), I0("EXHAUST"),
      I1("CALL", 0), I0("HALT")>>

\* three BINDs, a DROP, then REF 0 and REF 1: 20 - 10
BindRefTwo ==
    <<Const("I64", 0, 10), I0("BIND"), Const("I64", 0, 20), I0("BIND"), Const("I64", 0, 30),
      I0("BIND"), I0("DROP"), I1("REF", 0), I1("REF", 1), I0("SUB"), I0("HALT")>>

\* a PRE span that binds a value of its own, and a body that reads it
PreBindsRead ==
    WithHash(<<I2("FUNC", 0, 7), I1("PRE", 3), Const("I64", 0, 9), I0("BIND"),
               Const("Bool", 1, 0), I1("REF", 0), I0("RET"), PlaceHash, I0("ENDFUNC"),
               I1("CALL", 0), I0("HALT")>>, 0, 7)
\* the same span in a program that verify accepts: the call is in a CASE body
PreBindsAccepted ==
    WithHash(<<I2("FUNC", 0, 7), I1("PRE", 3), Const("I64", 0, 9), I0("BIND"),
               Const("Bool", 1, 0), Const("I64", 0, 7), I0("RET"), PlaceHash, I0("ENDFUNC"),
               Const("Bool", 1, 0), I1("MATCH", 2), I2("CASE", 0, 1), I1("CALL", 0),
               I2("CASE", 1, 1), I1("CALL", 0), I0("EXHAUST"), I0("HALT")>>, 0, 7)

\* a MATCH nested in a CASE body, with one CASE for two variants and no EXHAUST
NestedMatchBroken ==
    <<Const("Bool", 1, 0), I1("MATCH", 2), I2("CASE", 0, 1), Const("I64", 0, 0),
      I2("CASE", 1, 5), Const("Bool", 0, 0), I1("MATCH", 2), I2("CASE", 0, 1),
      Const("I64", 0, 1), I0("NOP"), I0("EXHAUST"), I0("HALT")>>

StructuredPrograms ==
    {FnIdentity, FnWrongHash, FnCallsItself, PreCallsItself, PrePostPass, PreFails,
     PostFails, HaltInPre, ParamThenPre, FnRecurse, MatchBool, MatchVariant,
     MatchDescending, MatchTagMax, FuncAsCarrier, FuncInCase, Arithmetic,
     EndFuncAsCarrier, BindDrop, ParamThenPost, TwoParams, PreBinds,
     CallLaterFromCase, DropInCallee, RetInCase,
     MatchInPre, MatchTagGap, MatchEmptyBodies,
     MatchUnusedField, NestedFunc, FuncOpenAtEnd, RefInCase,
     DeadCode, HiddenFunc, BindRefTwo, PreBindsRead,
     PreBindsAccepted, NestedMatchBroken}

\* programs that fill the operand stack: MAX_STACK_DEPTH constants, then `tail`
Deep(tail) == [i \in 1..MAX_STACK_DEPTH |-> Const("I64", 0, 1)] \o tail
DeepPrograms == {Deep(<<Const("Bool", 1, 0), I0("HALT")>>), Deep(<<I1("TYPEOF", 1), I0("HALT")>>)}

Programs == ShortPrograms \cup StructuredPrograms \cup DeepPrograms

(***************************************************************************)
(* The pipeline: verify(P) (verifier/src/lib.rs), then run(P)              *)
(* (vm/src/lib.rs).  run is a public entry point and may also be called on *)
(* a program that was never verified.                                      *)
(***************************************************************************)
IdleVM == [NewVM EXCEPT !.status = "idle"]
NoInstr == [op |-> "<none>", pc |-> 0, in_range |-> FALSE, depth |-> 0, top |-> <<>>]
NoCall == [fn |-> "<none>", arg |-> <<>>, result |-> <<>>, origin |-> <<>>]

Init ==
    /\ prog \in Programs
    /\ phase = IF prog \in DeepPrograms THEN "run" ELSE "limits"
    /\ ver = [all_errors |-> <<>>, s |-> structural_start(<<>>), result |-> "none"]
    /\ vm = IdleVM
    /\ last = NoInstr
    /\ call = NoCall

\* verify: all_errors.extend(check_limits(..)); entry into check_structural
CheckLimits ==
    /\ phase = "limits"
    /\ ver' = [ver EXCEPT !.all_errors = check_limits(prog), !.s = structural_start(prog)]
    /\ phase' = "structural"
    /\ UNCHANGED <<prog, vm, last, call>>

\* check_structural: one iteration of its scan loop
StructuralStep ==
    /\ phase = "structural"
    /\ ver.s.pc < Len(prog)
    /\ \E overflow_checks \in BOOLEAN :
          LET s1 == structural_iter(prog, ver.s, overflow_checks)
          IN  /\ ver' = [ver EXCEPT !.s = s1, !.result = IF s1.panicked THEN "panic" ELSE @]
              /\ phase' = IF s1.panicked THEN "done" ELSE "structural"
    /\ UNCHANGED <<prog, vm, last, call>>

\* check_structural after the loop, then the rest of verify
VerifyFinish ==
    /\ phase = "structural"
    /\ ver.s.pc >= Len(prog)
    /\ LET ctx == structural_finish(ver.s)
           all_errors == ver.all_errors \o ctx.errors
                         \o (IF ~ctx.fatal THEN dependent_passes(prog, ctx) ELSE <<>>)
       IN  ver' = [all_errors |-> all_errors, s |-> ctx,
                   result |-> IF all_errors = <<>> THEN "ok" ELSE "err"]
    /\ phase' = "run"
    /\ UNCHANGED <<prog, vm, last, call>>

\* run: VM::new, then execute up to its loop: scan_functions, find_entry_point
VMStart ==
    /\ phase = "run"
    /\ vm' = [NewVM EXCEPT !.functions = scan_functions(prog, 0),
                           !.pc = find_entry_point(prog)]
    /\ phase' = "exec"
    /\ UNCHANGED <<prog, ver, last, call>>

InMainLoop == phase = "exec" /\ vm.status = "running" /\ vm.natives = <<>>
InRangeLoop == phase = "exec" /\ vm.status = "running" /\ vm.natives # <<>>
CaseBodyEnded ==
    vm.case_contexts # <<>> /\ vm.pc >= Top(vm.case_contexts)[1]

\* execute, loop head: a finished CASE body jumps past EXHAUST
CaseExit ==
    /\ InMainLoop /\ CaseBodyEnded
    /\ vm' = [vm EXCEPT !.pc = Top(vm.case_contexts)[2], !.case_contexts = PopSeq(@)]
    /\ UNCHANGED <<prog, phase, ver, last, call>>

Dispatched(in_range) ==
    [op |-> OpAt(prog, vm.pc), pc |-> vm.pc, in_range |-> in_range, depth |-> Len(vm.stack),
     top |-> IF vm.stack = <<>> THEN <<>> ELSE <<Top(vm.stack)>>]

\* execute, loop body: fetch, advance, dispatch
Dispatch ==
    /\ InMainLoop /\ ~CaseBodyEnded
    /\ vm' = step(vm, prog, FALSE)
    /\ last' = Dispatched(FALSE)
    /\ UNCHANGED <<prog, phase, ver, call>>

\* execute_range, loop body: fetch, advance, execute_one
RangeStep ==
    /\ InRangeLoop /\ vm.pc < Top(vm.natives).end_pc
    /\ vm' = step(vm, prog, TRUE)
    /\ last' = Dispatched(TRUE)
    /\ UNCHANGED <<prog, phase, ver, call>>

\* execute_range returns to the handler that called it
RangeEnd ==
    /\ InRangeLoop /\ vm.pc >= Top(vm.natives).end_pc
    /\ vm' = range_end(vm)
    /\ UNCHANGED <<prog, phase, ver, last, call>>

Next ==
    \/ CheckLimits
    \/ StructuralStep
    \/ VerifyFinish
    \/ VMStart
    \/ CaseExit
    \/ Dispatch
    \/ RangeStep
    \/ RangeEnd

Spec == Init /\ [][Next]_vars

(***************************************************************************)
(* check_limits at its boundaries: programs whose size, REF index and      *)
(* RECURSE limit lie around the three limits                               *)
(***************************************************************************)
Sized(n) == [i \in 1..n |-> I0("HALT")]
AroundLimit(limit) == (limit - LimitMargin)..(limit + LimitMargin)
LimitsPrograms ==
    {Sized(MAX_PROGRAM_SIZE), Sized(MAX_PROGRAM_SIZE + 1)}
        \cup {<<I1("REF", i), I0("HALT")>> : i \in AroundLimit(MAX_REF_INDEX)}
        \cup {<<I1("RECURSE", k), I0("HALT")>> : k \in AroundLimit(MAX_RECURSION_LIMIT)}
        \cup {<<I1("REF", i), I1("RECURSE", k), I0("HALT")>> :
                 i \in AroundLimit(MAX_REF_INDEX), k \in AroundLimit(MAX_RECURSION_LIMIT)}

LimitsInit ==
    /\ prog \in LimitsPrograms
    /\ phase = "limits"
    /\ ver = [all_errors |-> <<>>, s |-> structural_start(<<>>), result |-> "none"]
    /\ vm = IdleVM
    /\ last = NoInstr
    /\ call = NoCall

LimitsSpec == LimitsInit /\ [][CheckLimits]_vars

(***************************************************************************)
(* The codec called on its own: Instruction and Program encode / decode,   *)
(* each followed by the inverse call on its result                         *)
(***************************************************************************)
ArgSamples == {0, 1, 256, U16 - 1}
TagByteSamples == 0..15 \cup {128, 255}
ArgByteSamples == {<<0, 0, 0, 0, 0, 0>>, <<1, 0, 0, 1, 255, 255>>, <<1, 2, 3, 4, 5, 6>>}

CodecInstructions ==
    {Instruction(op, tt, a1, a2, a3) :
        op \in ALL_OPCODES, tt \in {TagBytes[k] : k \in 1..Len(TagBytes)},
        a1 \in ArgSamples, a2 \in ArgSamples, a3 \in ArgSamples}

CodecBytes == {<<b0, b1>> \o rest : b0 \in 0..255, b1 \in TagByteSamples, rest \in ArgByteSamples}

ProgramInstructions ==
    {I0("HALT"), I0("NOP"), Const("I64", 1, 256), I1("REF", U16 - 1),
     Instruction("CASE", "Unit", 258, 772, 1286)}
CodecPrograms ==
    {<<>>} \cup {<<a>> : a \in ProgramInstructions}
           \cup {<<a, b>> : a \in ProgramInstructions, b \in ProgramInstructions}

\* whole chunks, of which any may fail to decode, and an optional partial chunk
ChunkSamples ==
    {encode(a) : a \in ProgramInstructions}
        \cup {<<0, 0, 0, 0, 0, 0, 0, 0>>, <<6, 1, 2, 3, 4, 5, 6, 7>>, <<254, 13, 0, 0, 0, 0, 0, 0>>}
TailSamples == {<<>>, <<254>>, <<254, 0, 0, 0, 0, 0, 0>>}
ProgramBytes ==
    {t : t \in TailSamples} \cup {c \o t : c \in ChunkSamples, t \in TailSamples}
        \cup {c \o d \o t : c \in ChunkSamples, d \in ChunkSamples, t \in TailSamples}

NewCall(fn, arg) == [fn |-> fn, arg |-> arg, result |-> <<>>, origin |-> <<>>]

CodecInit ==
    /\ prog = <<>>
    /\ phase = "library"
    /\ ver = [all_errors |-> <<>>, s |-> structural_start(<<>>), result |-> "none"]
    /\ vm = IdleVM
    /\ last = NoInstr
    /\ call \in {NewCall("Instruction::encode", a) : a \in CodecInstructions}
                \cup {NewCall("Instruction::decode", b) : b \in CodecBytes}
                \cup {NewCall("Program::encode", p) : p \in CodecPrograms}
                \cup {NewCall("Program::decode", b) : b \in ProgramBytes}

Returns(fn, value) ==
    /\ call.fn = fn
    /\ call.result = <<>>
    /\ call' = [call EXCEPT !.result = <<value>>]
    /\ UNCHANGED <<prog, phase, ver, vm, last>>

InstructionEncode == Returns("Instruction::encode", encode(call.arg))
InstructionDecode == Returns("Instruction::decode", decode(call.arg))
ProgramEncode == Returns("Program::encode", program_encode(call.arg))
ProgramDecode == Returns("Program::decode", program_decode(call.arg))

\* the caller passes what one direction returned to the other direction
InverseOf(fn) ==
    CASE fn = "Instruction::encode" -> "Instruction::decode"
      [] fn = "Instruction::decode" -> "Instruction::encode"
      [] fn = "Program::encode" -> "Program::decode"
      [] fn = "Program::decode" -> "Program::encode"

Decodes(fn) == fn \in {"Instruction::decode", "Program::decode"}

RoundTrip ==
    /\ call.result # <<>>
    /\ call.origin = <<>>
    /\ Decodes(call.fn) => call.result[1].ok
    /\ call' = [fn |-> InverseOf(call.fn),
                arg |-> IF Decodes(call.fn) THEN call.result[1].value ELSE call.result[1],
                result |-> <<>>, origin |-> <<call.arg>>]
    /\ UNCHANGED <<prog, phase, ver, vm, last>>

CodecNext ==
    \/ InstructionEncode
    \/ InstructionDecode
    \/ ProgramEncode
    \/ ProgramDecode
    \/ RoundTrip

CodecSpec == CodecInit /\ [][CodecNext]_vars

(***************************************************************************)
(* Instruction::from_value called on a value, and the instructions it      *)
(* returns run with a HALT appended                                        *)
(***************************************************************************)
\* char: a code point 0..0x10FFFF outside the surrogates, in the low two limbs
CharValue(c) == Value("Char", <<0, 0, c \div U16, c % U16>>, 0, <<>>)

WordSamples ==
    {Zero4, One4, <<0, 0, 0, 10>>, <<0, 0, 1, 0>>, <<0, 0, 32767, U16 - 1>>, <<0, 0, 32768, 0>>,
     <<0, 0, U16 - 1, U16 - 1>>, <<0, 1, 0, 0>>, <<32767, U16 - 1, U16 - 1, U16 - 1>>,
     <<32768, 0, 0, 0>>, <<U16 - 1, U16 - 1, 32768, 0>>, <<U16 - 1, U16 - 1, 32767, U16 - 1>>,
     <<U16 - 1, U16 - 1, U16 - 1, U16 - 1>>}
\* 1.0, -0.0, the largest finite, the smallest subnormal, +inf, a NaN
FloatSamples ==
    {Zero4, <<16368, 0, 0, 0>>, <<32768, 0, 0, 0>>, <<32751, U16 - 1, U16 - 1, U16 - 1>>,
     One4, <<32752, 0, 0, 0>>, <<32760, 0, 0, 0>>}
CharSamples == {0, 65, 55295, 57344, U16 - 1, U16, 120832, 128512, 1114111}

ConstValues ==
    {VI64(w) : w \in WordSamples} \cup {VU64(w) : w \in WordSamples}
        \cup {VF64(w) : w \in FloatSamples} \cup {VBool(TRUE), VBool(FALSE), VUnit}
        \cup {CharValue(c) : c \in CharSamples}
        \cup {VTuple(<<VUnit>>)}

ConstInit ==
    /\ prog = <<>>
    /\ phase = "library"
    /\ ver = [all_errors |-> <<>>, s |-> structural_start(<<>>), result |-> "none"]
    /\ vm = IdleVM
    /\ last = NoInstr
    /\ call \in {NewCall("Instruction::from_value", v) : v \in ConstValues}

\* from_value(v); the caller appends HALT to what an Ok holds and runs it
FromValue ==
    /\ call.fn = "Instruction::from_value"
    /\ call.result = <<>>
    /\ LET r == from_value(call.arg)
       IN  /\ call' = [call EXCEPT !.result = <<r>>]
           /\ prog' = IF r.ok THEN Append(r.value, I0("HALT")) ELSE prog
           /\ phase' = IF r.ok THEN "run" ELSE phase
    /\ UNCHANGED <<ver, vm, last>>

ConstNext ==
    \/ FromValue
    \/ VMStart
    \/ Dispatch

ConstSpec == ConstInit /\ [][ConstNext]_vars

(***************************************************************************)
(* Properties                                                              *)
(***************************************************************************)
Range(seq) == {seq[i] : i \in 1..Len(seq)}
VerifyReturned == ver.result \in {"ok", "err"}
RunStarted == phase = "exec"
ErrorKind == IF vm.error = <<>> THEN "<none>" ELSE vm.error[1].kind

\* C1: for every program that verify accepts, run returns one value or a
\* RuntimeError (it does not run forever, abort or panic).
C1_VerifiedRunReturns ==
    (ver.result = "ok" /\ RunStarted) => vm.status \in {"running", "ok", "err", "cutoff"}

\* C2: run is finite on every program, verified or not: no unbounded nesting
\* of CALL or RECURSE.
C2_RunIsFinite == RunStarted => vm.status # "diverged"

\* C3: every failure of the VM is returned as a RuntimeError; no step, the
\* evaluation of PRE and POST spans included, aborts or panics.
C3_FailuresAreRuntimeErrors == RunStarted => vm.status \notin {"abort", "panic"}

\* C4: the operand stack never holds more than MAX_STACK_DEPTH values, and a
\* push onto a full stack raises StackOverflow and leaves the stack unchanged.
C4_StackBounded ==
    /\ Len(vm.stack) <= MAX_STACK_DEPTH
    /\ (RunStarted /\ Len(vm.stack) = MAX_STACK_DEPTH) =>
            LET r == push([vm EXCEPT !.status = "running", !.error = <<>>], VUnit)
            IN  /\ r.status = "err" /\ r.error[1].kind = "StackOverflow"
                /\ r.stack = vm.stack
    /\ ErrorKind = "StackOverflow" => Len(vm.stack) = MAX_STACK_DEPTH

C4_Witness == ErrorKind = "StackOverflow" /\ last.depth = MAX_STACK_DEPTH

HaltOutcome ==
    /\ vm.status \in {"ok", "err"}
    /\ last.depth = 1 => vm.status = "ok" /\ vm.result = last.top
    /\ last.depth = 0 => ErrorKind = "HaltWithEmptyStack"
    /\ last.depth >= 2 => ErrorKind = "HaltWithMultipleValues" /\ vm.error[1].info = last.depth

HaltInSpanNext ==
    InRangeLoop /\ vm.pc < Top(vm.natives).end_pc /\ OpAt(prog, vm.pc) = "HALT"

PassesRun ==
    <<check_limits(prog), ver.s.errors>>
    \o (IF ver.s.fatal THEN <<>>
        ELSE <<check_exhaustion(ver.s), check_hashing(prog, ver.s), check_types(prog, ver.s),
               check_contracts(prog, ver.s), check_stack(prog, ver.s),
               check_reachability(prog, ver.s)>>)

RefTooDeepNoHalt ==
    /\ \E i \in 1..Len(prog) : prog[i].opcode = "REF" /\ prog[i].arg1 > MAX_REF_INDEX
    /\ Top(prog).opcode # "HALT"

\* C6: verify returns Ok exactly when no pass that ran reports an error, and
\* otherwise the union of their errors; a REF beyond the limit in a program
\* without a final HALT yields both RefTooDeep and MissingHalt.
C6_VerifyCollectsAllErrors ==
    VerifyReturned =>
        /\ (ver.result = "ok") <=> (\A k \in 1..Len(PassesRun) : PassesRun[k] = <<>>)
        /\ Range(ver.all_errors) = UNION {Range(PassesRun[k]) : k \in 1..Len(PassesRun)}
        /\ RefTooDeepNoHalt =>
               HasKind(ver.all_errors, "RefTooDeep") /\ HasKind(ver.all_errors, "MissingHalt")

C6_Witness ==
    /\ VerifyReturned /\ RefTooDeepNoHalt /\ ver.result = "err"
    /\ \E k \in 3..Len(PassesRun) : PassesRun[k] # <<>>

\* C7: when the structural pass sets fatal, verify returns the errors of the
\* limits and structural passes only; otherwise exhaustion, hashing, types,
\* contracts, stack and reachability all run and contribute, in that order.
C7_FatalSuppressesDependentPasses ==
    VerifyReturned =>
        ver.all_errors =
            IF ver.s.fatal THEN check_limits(prog) \o ver.s.errors
            ELSE check_limits(prog) \o ver.s.errors
                 \o check_exhaustion(ver.s) \o check_hashing(prog, ver.s)
                 \o check_types(prog, ver.s) \o check_contracts(prog, ver.s)
                 \o check_stack(prog, ver.s) \o check_reachability(prog, ver.s)

C7_Witness ==
    /\ VerifyReturned /\ ver.s.fatal
    /\ check_stack(prog, ver.s) \o check_reachability(prog, ver.s) # <<>>

\* C8: verify never panics: every index and arithmetic operation of every
\* pass stays in range, for all 16-bit argument values.
C8_VerifyNeverPanics == ver.result # "panic"

FuncPcs(functions) == [k \in 1..Len(functions) |-> functions[k].func_pc]

\* C9: when the structural pass is not fatal, the VM's function table and
\* the verifier's ProgramContext list the same FUNC blocks in the same order.
C9_SameFunctionTables ==
    (RunStarted /\ VerifyReturned /\ ~ver.s.fatal) =>
        FuncPcs(vm.functions) = FuncPcs(ver.s.functions)

Spans(blocks) == [k \in 1..Len(blocks) |-> <<blocks[k][2], blocks[k][3]>>]
IsFuncBlock(pc) ==
    /\ OpAt(prog, pc) = "FUNC"
    /\ OpAt(prog, pc + 1 + At(prog, pc).arg2) = "ENDFUNC"

\* C10: for every FUNC block the VM pre-scan records every PRE and POST span
\* that follows the block's PARAMs, and body_start_pc is the first
\* instruction after all PARAMs, PREs and POSTs.
C10_PreScanRecordsSpans ==
    RunStarted =>
        \A k \in 1..Len(vm.functions) :
            LET f == vm.functions[k]
                g == scan_func(prog, f.func_pc)
            IN  IsFuncBlock(f.func_pc) =>
                    /\ f.pre_conditions = Spans(g.pre_conditions)
                    /\ f.post_conditions = Spans(g.post_conditions)
                    /\ f.body_start_pc = g.body_start_pc

\* the step of run that builds the function table and sets the first pc
VMStarts == phase = "run" /\ phase' = "exec"

\* C11: when the structural pass is not fatal, the VM starts executing at the
\* verifier's entry_point: the index after the last function's ENDFUNC, or 0
\* when the program has no functions.
C11_SameEntryPoint ==
    [][(VMStarts /\ VerifyReturned /\ ~ver.s.fatal) =>
           /\ vm'.pc = ver.s.entry_point
           /\ vm'.pc = IF ver.s.functions = <<>> THEN 0
                       ELSE Top(ver.s.functions).endfunc_pc + 1]_vars

\* a step of the main loop of execute that dispatches the instruction at vm.pc
MainDispatch == InMainLoop /\ ~CaseBodyEnded /\ vm.pc < Len(prog) /\ vm' # vm

\* opcodes whose effect on the operand stack spans more than their own step
BlockOps == {"CALL", "RECURSE", "RET", "MATCH", "CASE", "FUNC", "PRE", "POST", "HALT"}

\* C12: for every opcode the stack pass's depth change (stack_delta) and
\* required depth (stack_pops) are what the VM does when it executes the
\* opcode successfully; for CALL and RECURSE that is param_count values
\* popped and one pushed, for DROP no operand-stack value needed.
C12_StackTableMatchesVM ==
    [][(MainDispatch /\ vm'.status = "running") =>
           LET instr == At(prog, vm.pc)
               taken == Len(vm.stack) - Len(vm'.stack)
           IN  /\ Len(vm.stack) >= stack_pops(instr)
               /\ instr.opcode \notin BlockOps => stack_delta(instr) = -taken
               /\ instr.opcode \in {"CALL", "RECURSE"} =>
                      stack_pops(instr) = taken /\ stack_delta(instr) = 1 - taken]_vars

\* the PRE / POST spans the FUNC block of the VM's function k declares
\* (<<>> when the FUNC has no matching ENDFUNC)
DeclaredSpans(k, kind) ==
    LET func_pc == At(vm.functions, k).func_pc
    IN  IF ~IsFuncBlock(func_pc) THEN <<>>
        ELSE IF kind = "PRE" THEN Spans(scan_func(prog, func_pc).pre_conditions)
        ELSE Spans(scan_func(prog, func_pc).post_conditions)

\* execute_range is about to return from the last span of a handler of one
\* of `kinds`, with Bool(true) on top of the operand stack
LastSpanPassed(kinds) ==
    /\ vm.natives # <<>> /\ Top(vm.natives).kind \in kinds
    /\ Top(vm.natives).spans = <<>> /\ vm.pc >= Top(vm.natives).end_pc
    /\ vm.stack # <<>> /\ IsTrue(Top(vm.stack))

\* C13: a call frame of a function that declares PRE spans is pushed only
\* once those spans have been evaluated and left Bool(true); otherwise the
\* call raises PreconditionFailed before the body runs.  With or without
\* PARAM declarations.
C13_PreconditionsChecked ==
    [][(Len(vm'.call_stack) = Len(vm.call_stack) + 1
        /\ DeclaredSpans(Top(vm'.call_stack).func_index, "PRE") # <<>>) =>
           LastSpanPassed({"call", "recurse"})]_vars

\* C14: a RET from a function that declares POST spans binds the return
\* value (index 0, the most recent argument then at index 1) and evaluates
\* the first declared span; PostconditionFailed unless it leaves Bool(true).
C14_PostconditionsChecked ==
    [][(MainDispatch /\ OpAt(prog, vm.pc) = "RET"
        /\ vm.stack # <<>> /\ vm.call_stack # <<>>
        /\ DeclaredSpans(Top(vm.call_stack).func_index, "POST") # <<>>) =>
           /\ vm'.bindings = Append(vm.bindings, Top(vm.stack))
           /\ Len(vm'.natives) = Len(vm.natives) + 1
           /\ Top(vm'.natives).kind = "ret"
           /\ vm'.pc = DeclaredSpans(Top(vm.call_stack).func_index, "POST")[1][1]]_vars

\* a call frame is pushed: the callee's body is entered
BodyEntered == Len(vm'.call_stack) = Len(vm.call_stack) + 1

Callee ==
    LET instr == At(prog, vm.pc)
    IN  IF instr.opcode = "CALL" /\ instr.arg1 < Len(vm.functions) THEN instr.arg1
        ELSE IF instr.opcode = "RECURSE" /\ vm.call_stack # <<>>
        THEN Top(vm.call_stack).func_index
        ELSE -1

\* the main loop dispatches a CALL or RECURSE that binds its arguments
CallBinds ==
    /\ MainDispatch /\ OpAt(prog, vm.pc) \in {"CALL", "RECURSE"} /\ Callee # -1
    /\ vm'.status \in {"running", "diverged", "abort"}

C16_CallEntersBody ==
    [][(BodyEntered /\ vm'.status = "running") =>
           /\ vm'.pc = Top(vm'.call_stack).body_start_pc
           /\ vm'.natives = <<>> => ~CaseBodyEnded']_vars

ReturnNoPost ==
    /\ MainDispatch /\ OpAt(prog, vm.pc) = "RET" /\ vm.stack # <<>> /\ vm.call_stack # <<>>
    /\ Top(vm.call_stack).post_conditions = <<>>
    /\ vm'.status = "running"
ReturnAfterPost ==
    /\ vm.natives # <<>> /\ Top(vm.natives).kind = "ret" /\ Top(vm.natives).spans = <<>>
    /\ Len(vm'.natives) < Len(vm.natives)
    /\ vm'.status = "running"
ReturningFrame == IF vm.natives # <<>> THEN Top(vm.natives).frame[1] ELSE Top(vm.call_stack)

\* C17: when a call returns through RET, the binding stack has the length it had
\* immediately before the call's arguments were bound (a consequence of "same
\* length and same values").
C17_BindingsRestored ==
    [][(ReturnNoPost \/ ReturnAfterPost) =>
           Len(vm'.bindings) = ReturningFrame.saved_binding_depth]_vars

ReturnValue == IF vm.natives # <<>> THEN Top(vm.natives).retval[1] ELSE Top(vm.stack)

\* C18: a RET with a frame present pops the frame, leaves pc at the frame's
\* return_pc with the returned value on top of the operands that were beneath
\* it, and the instruction at return_pc is where execution goes on: the loop
\* head leaves pc alone unless the call was the last instruction of a CASE body.
C18_RetResumesCaller ==
    [][(ReturnNoPost \/ ReturnAfterPost) =>
           /\ vm'.pc = ReturningFrame.return_pc
           /\ vm'.stack = Append(PopSeq(vm.stack), ReturnValue)
           /\ vm.natives = <<>> => vm'.call_stack = PopSeq(vm.call_stack)
           /\ CaseBodyEnded' => Top(vm'.case_contexts)[1] = ReturningFrame.return_pc]_vars

RecurseStep ==
    /\ phase = "exec" /\ vm.status = "running" /\ vm' # vm
    /\ OpAt(prog, vm.pc) = "RECURSE" /\ vm.call_stack # <<>>
    /\ IF vm.natives = <<>> THEN ~CaseBodyEnded ELSE vm.pc < Top(vm.natives).end_pc
RecursionDepthExceeded ==
    vm.status = "err" /\ vm.error # <<>> /\ vm.error[1].kind = "RecursionDepthExceeded"
\* the frame was made by the instruction before its return_pc
FrameWithinLimit(frame) ==
    LET instr == At(prog, frame.return_pc - 1)
    IN  instr.opcode = "RECURSE" => frame.recursion_depth <= instr.arg1

\* C19: RECURSE k with a frame present raises RecursionDepthExceeded exactly when
\* the current frame's recursion_depth + 1 exceeds k, the frame it creates has
\* the current recursion_depth + 1, and no frame created by a RECURSE k has a
\* recursion_depth greater than k.
C19_RecursionBounded ==
    [][/\ RecurseStep =>
              LET d == Top(vm.call_stack).recursion_depth
                  k == At(prog, vm.pc).arg1
              IN  /\ RecursionDepthExceeded' <=> d + 1 > k
                  /\ Len(vm'.call_stack) > Len(vm.call_stack) =>
                         Top(vm'.call_stack).recursion_depth = d + 1
       /\ BodyEntered => FrameWithinLimit(Top(vm'.call_stack))]_vars
\* the chain of RECURSE 2 has reached depth 2 and the next RECURSE was refused
C19_Witness ==
    /\ RecursionDepthExceeded /\ vm.error[1].info = 2
    /\ Len(vm.call_stack) = 3
    /\ Top(vm.call_stack).recursion_depth = 2
    /\ vm.call_stack[2].recursion_depth = 1

\* the instruction before the end of the innermost CASE body has just run
SelectedBodyFinished ==
    /\ phase = "exec" /\ vm.status = "running"
    /\ CaseBodyEnded /\ vm.pc = Top(vm.case_contexts)[1]
    /\ last.pc < vm.pc /\ last.op \notin {"CALL", "RECURSE", "RET"}
    /\ last.in_range = (vm.natives # <<>>)

\* C20: when the selected CASE body reaches its end, the next step moves pc to
\* the instruction after the MATCH's EXHAUST and takes the MATCH's entry off the
\* case-context stack.
C20_CaseBodyFallsThrough ==
    [][(SelectedBodyFinished /\ vm' # vm) =>
           /\ vm'.pc = Top(vm.case_contexts)[2]
           /\ vm'.case_contexts = PopSeq(vm.case_contexts)]_vars

\* an instruction is dispatched by the main loop or by execute_range
Dispatches(op) ==
    /\ phase = "exec" /\ vm.status = "running" /\ vm' # vm
    /\ OpAt(prog, vm.pc) = op
    /\ IF vm.natives = <<>> THEN ~CaseBodyEnded ELSE vm.pc < Top(vm.natives).end_pc
SelectorTag(v) == IF v.t = "Bool" THEN (IF IsTrue(v) THEN 1 ELSE 0) ELSE v.w[4]

\* C21: MATCH pops one selector; a selector that is neither Bool nor Variant is
\* a runtime error; when the MATCH succeeds, pc is the body of a CASE carrying
\* the selector's tag (false/true: 0/1, a Variant: its tag) and the operand
\* stack is the one beneath the selector, with the payload pushed on it only for
\* a Variant.
C21_MatchSelectsCase ==
    [][(Dispatches("MATCH") /\ vm.stack # <<>>) =>
           LET selector == Top(vm.stack)
               case_instr == At(prog, vm'.pc - 1)
           IN  /\ selector.t \notin {"Bool", "Variant"} =>
                      vm'.status = "err" /\ vm'.error # <<>>
               /\ vm'.status = "running" =>
                      /\ selector.t \in {"Bool", "Variant"}
                      /\ vm'.pc - 1 > vm.pc
                      /\ case_instr.opcode = "CASE" /\ case_instr.arg1 = SelectorTag(selector)
                      /\ vm'.stack = IF selector.t = "Variant"
                                     THEN Append(PopSeq(vm.stack), selector.p[1])
                                     ELSE PopSeq(vm.stack)]_vars
\* MatchVariant: the payload 9 of tag 1 is on the stack at the body of CASE 1
C21_Witness ==
    /\ RunStarted /\ vm.status = "running" /\ last.op = "MATCH"
    /\ vm.pc = last.pc + 3 /\ OpAt(prog, vm.pc - 1) = "CASE" /\ At(prog, vm.pc - 1).arg1 = 1
    /\ last.top # <<>> /\ last.top[1].t = "Variant"
    /\ vm.stack = <<last.top[1].p[1]>>

CaseTags(match_info) == {match_info.cases[i][2] : i \in 1..Len(match_info.cases)}

\* C22: in a program accepted by verify, every MATCH the structural pass has
\* recorded has variant_count CASE branches whose tags are exactly
\* 0..variant_count-1.
C22_CaseTagsAreExhaustive ==
    ver.result = "ok" =>
        \A k \in 1..Len(ver.s.matches) :
            LET match_info == ver.s.matches[k]
            IN  /\ Len(match_info.cases) = match_info.variant_count
                /\ CaseTags(match_info) = 0..(match_info.variant_count - 1)

\* the main loop leaves a CASE body right after the MATCH that selected it
EmptyBodyCompleted ==
    /\ InMainLoop /\ CaseBodyEnded /\ vm' # vm
    /\ last.op = "MATCH" /\ ~last.in_range

\* C23: in a program accepted by verify, the operand stack is as deep after a
\* completed MATCH block as it was when the MATCH was dispatched (here for a
\* selected CASE body that has no instructions).
C23_MatchBlockKeepsDepth ==
    [][(ver.result = "ok" /\ EmptyBodyCompleted) => Len(vm'.stack) = last.depth]_vars

\* the slot after a CONST_EXT that is not itself such a slot
RECURSIVE IsCarrierSlot(_)
IsCarrierSlot(i) == i > 0 /\ OpAt(prog, i - 1) = "CONST_EXT" /\ ~IsCarrierSlot(i - 1)

\* C24: in a program accepted by verify, every instruction that is not a
\* CONST_EXT carrier slot has its unused fields equal to zero.
C24_UnusedFieldsAreZero ==
    ver.result = "ok" =>
        \A i \in 0..(Len(prog) - 1) :
            ~IsCarrierSlot(i) => check_unused_fields(At(prog, i), i) = <<>>

StructuralScan == phase = "structural" /\ ver.s.pc < Len(prog) /\ ver' # ver /\ ~ver'.s.panicked
StructuralEnds == phase = "structural" /\ phase' = "run"
ReportedFatal(kind, at) ==
    ver'.s.errors = Append(ver.s.errors, VerifyError(kind, at, 0)) /\ ver'.s.fatal

\* C25: the structural scan reports NestedFunc for a FUNC met while a function
\* is open; UnmatchedFunc for a FUNC whose func_pc + 1 + body_len is out of
\* range or not an ENDFUNC, for an ENDFUNC met outside any function, and for a
\* function still open at the end of the program; each report sets fatal.
C25_FuncStructureErrorsAreFatal ==
    [][/\ StructuralScan =>
              LET pc == ver.s.pc
                  instr == At(prog, pc)
                  open == ver.s.in_func # -1
                  endfunc_pc == pc + 1 + instr.arg2
              IN  /\ (instr.opcode = "FUNC" /\ open) => ReportedFatal("NestedFunc", pc)
                  /\ (instr.opcode = "FUNC" /\ ~open
                         /\ (endfunc_pc >= Len(prog) \/ OpAt(prog, endfunc_pc) # "ENDFUNC")) =>
                         ReportedFatal("UnmatchedFunc", pc)
                  /\ (instr.opcode = "ENDFUNC" /\ ~open) => ReportedFatal("UnmatchedFunc", pc)
       /\ (StructuralEnds /\ ver.s.in_func # -1) =>
              /\ ver'.s.fatal
              /\ ver'.s.errors = Append(ver.s.errors, VerifyError("UnmatchedFunc", ver.s.in_func, 0))
       ]_vars
\* verify has returned the errors of a nested FUNC and of a function left open
C25_Witness ==
    /\ VerifyReturned /\ ver.s.fatal
    /\ \/ HasError(ver.all_errors, "NestedFunc", 1)
       \/ (prog = FuncOpenAtEnd /\ HasError(ver.all_errors, "UnmatchedFunc", 0))

\* the instructions of the CASE bodies the structural pass has recorded
CaseBodyPcs ==
    UNION {UNION {(c[1] + 1)..(c[1] + c[3]) : c \in Range(ver.s.matches[k].cases)} :
           k \in 1..Len(ver.s.matches)}
NoBindings == \A i \in 0..(Len(prog) - 1) : OpAt(prog, i) \notin {"BIND", "FUNC", "PARAM"}

\* C26: when no binding is ever in scope (the program has no BIND and no
\* function), verify reports UnresolvableRef for every REF inside a CASE body.
C26_RefInCaseBodyIsChecked ==
    (VerifyReturned /\ ~ver.s.fatal /\ NoBindings) =>
        \A i \in CaseBodyPcs :
            (i < Len(prog) /\ OpAt(prog, i) = "REF" /\ ~IsCarrierSlot(i)) =>
                HasError(ver.all_errors, "UnresolvableRef", i)

\* The reachability rules, as a flow relation on the program: where linear
\* flow goes after the instruction at pc
NextPc(pc) ==
    LET instr == At(prog, pc)
        op == instr.opcode
        mi == find_match(ver.s, pc)
    IN  CASE op = "CONST_EXT" -> pc + 2
          [] op = "MATCH" /\ mi # <<>> -> mi[1].exhaust_pc + 1
          [] op = "FUNC" -> pc + 1 + instr.arg2 + 1
          [] op = "CASE" -> pc + 1 + instr.arg2
          [] op \in {"PRE", "POST"} -> pc + 1 + instr.arg1
          [] OTHER -> pc + 1
\* the instructions linear flow passes through from pc, stopping at HALT or RET
RECURSIVE Flow(_, _)
Flow(pc, end) ==
    IF pc >= end \/ pc >= Len(prog) THEN {}
    ELSE IF OpAt(prog, pc) \in {"HALT", "RET"} THEN {pc}
    ELSE {pc} \cup Flow(NextPc(pc), end)
\* with the data slots and the MATCH blocks of the instructions passed
Covered(flow) ==
    flow \cup {pc + 1 : pc \in {p \in flow : OpAt(prog, p) = "CONST_EXT" /\ p + 1 < Len(prog)}}
         \cup UNION {CaseIndices(prog, ver.s.matches[k].cases) \cup {ver.s.matches[k].exhaust_pc} :
                     k \in {j \in 1..Len(ver.s.matches) : ver.s.matches[j].match_pc \in flow}}
FunctionMarks(func) ==
    {func.func_pc, func.endfunc_pc}
        \cup {pc \in (func.func_pc + 1)..(func.func_pc + Len(func.param_types)) : TRUE}
        \cup BlockIndices(prog, func.pre_conditions) \cup BlockIndices(prog, func.post_conditions)
        \cup (IF func.hash_pc # -1 THEN {func.hash_pc} ELSE {})
        \cup Covered(Flow(func.body_start_pc, func.endfunc_pc))
Marked ==
    Covered(Flow(ver.s.entry_point, Len(prog)))
        \cup UNION {FunctionMarks(ver.s.functions[k]) : k \in 1..Len(ver.s.functions)}
UnreachableReported ==
    {ver.all_errors[i].at : i \in {j \in 1..Len(ver.all_errors) :
                                      ver.all_errors[j].kind = "UnreachableInstruction"}}

HasCorrectHash(func_pc) ==
    LET hash_pc == func_pc + At(prog, func_pc).arg2
        hash_instr == At(prog, hash_pc)
    IN  /\ hash_pc > func_pc /\ hash_pc < Len(prog)
        /\ hash_instr.opcode = "HASH"
        /\ <<hash_instr.arg1, hash_instr.arg2, hash_instr.arg3>>
               = blake3_hash48(prog, func_pc, hash_pc)

\* C28: in a program accepted by verify, every function whose body the VM
\* enters has, immediately before its ENDFUNC, a HASH equal to the digest of
\* the instructions func_pc .. hash_pc - 1.
C28_AcceptedFunctionsAreHashed ==
    (ver.result = "ok" /\ RunStarted /\ vm.call_stack # <<>>) =>
        HasCorrectHash(At(vm.functions, Top(vm.call_stack).func_index).func_pc)

LimitsChecked == phase = "structural"

\* C29: each limit is an inclusive upper bound: check_limits reports
\* ProgramTooLarge exactly for more than MAX_PROGRAM_SIZE instructions,
\* RefTooDeep exactly for a REF index above MAX_REF_INDEX and
\* RecursionLimitTooHigh exactly for a RECURSE limit above MAX_RECURSION_LIMIT.
C29_LimitsAreInclusive ==
    LimitsChecked =>
        /\ HasKind(ver.all_errors, "ProgramTooLarge") <=> Len(prog) >= MAX_PROGRAM_SIZE + 1
        /\ \A i \in 0..(Len(prog) - 1) :
               /\ OpAt(prog, i) = "REF" =>
                      (HasError(ver.all_errors, "RefTooDeep", i)
                           <=> At(prog, i).arg1 >= MAX_REF_INDEX + 1)
               /\ OpAt(prog, i) = "RECURSE" =>
                      (HasError(ver.all_errors, "RecursionLimitTooHigh", i)
                           <=> At(prog, i).arg1 >= MAX_RECURSION_LIMIT + 1)
\* a program of exactly MAX_PROGRAM_SIZE instructions passes the limits check
C29_Witness ==
    LimitsChecked /\ Len(prog) = MAX_PROGRAM_SIZE /\ ver.all_errors = <<>>

\* C30: BIND moves the top operand onto the binding stack, DROP removes the
\* most recent binding, and REF i pushes a copy of the (i+1)-th most recent
\* binding and leaves the binding stack unchanged; REF with i at or above the
\* binding depth and DROP on an empty binding stack are runtime errors.
C30_DeBruijnBindings ==
    [][/\ (Dispatches("BIND") /\ vm.stack # <<>>) =>
              /\ vm'.bindings = Append(vm.bindings, Top(vm.stack))
              /\ vm'.stack = PopSeq(vm.stack)
       /\ Dispatches("DROP") =>
              IF vm.bindings = <<>>
              THEN vm'.status = "err" /\ vm'.error # <<>>
              ELSE /\ vm'.bindings = SubSeq(vm.bindings, 1, Len(vm.bindings) - 1)
                   /\ vm'.stack = vm.stack /\ vm'.status = "running"
       /\ Dispatches("REF") =>
              LET i == At(prog, vm.pc).arg1
                  depth == Len(vm.bindings)
              IN  IF i >= depth
                  THEN vm'.status = "err" /\ vm'.error # <<>>
                  ELSE /\ vm'.bindings = vm.bindings
                       /\ Len(vm.stack) < MAX_STACK_DEPTH =>
                              /\ vm'.stack = Append(vm.stack, vm.bindings[depth - i])
                              /\ vm'.status = "running"
       ]_vars
\* BindRefTwo: with the bindings 10, 20 left after the DROP, REF 1 has pushed 10
C30_Witness ==
    /\ RunStarted /\ vm.status = "running"
    /\ last.op = "REF" /\ At(prog, last.pc).arg1 = 1
    /\ Len(vm.bindings) = 2 /\ vm.bindings[1] # vm.bindings[2]
    /\ vm.stack # <<>> /\ Top(vm.stack) = vm.bindings[1]

\* C31: an instruction that is encoded and then decoded comes back unchanged:
\* Instruction::decode(Instruction::encode(I)) = Ok(I)
C31_DecodeInvertsEncode ==
    (call.fn = "Instruction::decode" /\ call.origin # <<>> /\ call.result # <<>>) =>
        call.result[1] = Ok(call.origin[1])
\* an instruction whose three arguments have distinct low and high bytes came back
C31_Witness ==
    /\ call.fn = "Instruction::decode" /\ call.origin # <<>> /\ call.result # <<>>
    /\ call.origin[1].opcode = "TYPEOF" /\ call.origin[1].type_tag = "Unit"
    /\ call.origin[1].arg1 = 1 /\ call.origin[1].arg2 = 256 /\ call.origin[1].arg3 = U16 - 1
    /\ call.result[1].ok

\* C32: decoding eight bytes gives an instruction that encodes to the same
\* bytes, or IllegalOpcode when byte 0 is 0, ReservedOpcode when byte 0 is no
\* allocated opcode, or ReservedTypeTag when byte 1 is above 0x0C
DecodedBytes == call.fn = "Instruction::decode" /\ call.origin = <<>> /\ call.result # <<>>
ReEncoded == call.fn = "Instruction::encode" /\ call.origin # <<>> /\ call.result # <<>>
AllocatedOpcodeBytes == {OpcodeByte(op) : op \in ALL_OPCODES}
C32_DecodeIsTotal ==
    /\ ReEncoded => call.result[1] = call.origin[1]
    /\ DecodedBytes =>
          LET r == call.result[1]
              b0 == call.arg[1]
              b1 == call.arg[2]
          IN  \/ r.ok /\ b0 \in AllocatedOpcodeBytes /\ b1 <= 12
              \/ ~r.ok /\ r.kind = "IllegalOpcode" /\ b0 = 0
              \/ ~r.ok /\ r.kind = "ReservedOpcode" /\ b0 # 0 /\ b0 \notin AllocatedOpcodeBytes
              \/ ~r.ok /\ r.kind = "ReservedTypeTag" /\ b1 > 12 /\ b0 \in AllocatedOpcodeBytes
\* the bytes ff 0c 01 02 03 04 05 06 were decoded and encoded again
C32_Witness ==
    /\ ReEncoded
    /\ call.origin[1] = <<255, 12, 1, 2, 3, 4, 5, 6>>
    /\ call.arg.arg1 = 513

\* C33: Program::decode(Program::encode(P)) = Ok(P), and a byte string that
\* decodes successfully is what encoding the decoded program gives back
C33_ProgramCodecInverse ==
    /\ (call.fn = "Program::decode" /\ call.origin # <<>> /\ call.result # <<>>) =>
            call.result[1] = Ok(call.origin[1])
    /\ (call.fn = "Program::encode" /\ call.origin # <<>> /\ call.result # <<>>) =>
            call.result[1] = call.origin[1]
\* a two-instruction program came back from its sixteen bytes
C33_Witness ==
    /\ call.fn = "Program::decode" /\ call.origin # <<>> /\ call.result # <<>>
    /\ Len(call.origin[1]) = 2 /\ call.origin[1][1] # call.origin[1][2]
    /\ Len(call.arg) = 16
    /\ call.result[1].ok /\ Len(call.result[1].value) = 2

\* C34: when from_value accepts a primitive value, running the instructions
\* it returns followed by HALT ends with exactly that value
ConstRunReturned ==
    /\ call.fn = "Instruction::from_value" /\ call.result # <<>> /\ call.result[1].ok
    /\ phase = "exec" /\ vm.status # "running"
C34_FromValueRoundTrip ==
    ConstRunReturned => (vm.status = "ok" /\ vm.result = <<call.arg>>)

\* C35: a run of a program that verify accepted does not fail with
\* HaltWithEmptyStack, HaltWithMultipleValues or StackUnderflow
C35_VerifiedStackIsBalanced ==
    (ver.result = "ok" /\ RunStarted) =>
        ErrorKind \notin {"HaltWithEmptyStack", "HaltWithMultipleValues", "StackUnderflow"}

\* C36: a run of a program that verify accepted does not fetch beyond the
\* last instruction
C36_VerifiedRunStaysInProgram ==
    (ver.result = "ok" /\ RunStarted) =>
        (ErrorKind = "UnexpectedEndOfProgram" => vm.error[1].at < Len(prog))

\* C37: in an accepted program, when RET pops the last frame of a function,
\* no case context of a MATCH of that function's block is left on the
\* case-context stack (such a context was pushed during a call of the function)
FunctionBlock(func) == func.func_pc..(func.func_pc + 1 + At(prog, func.func_pc).arg2)
LastFrameOf(func_index) ==
    \A k \in 1..Len(vm'.call_stack) : vm'.call_stack[k].func_index # func_index
C37_CaseContextsEndWithFrame ==
    [][(ver.result = "ok" /\ (ReturnNoPost \/ ReturnAfterPost)
            /\ LastFrameOf(ReturningFrame.func_index)) =>
           \A c \in 1..Len(vm'.case_contexts) :
               vm'.case_contexts[c][1]
                   \notin FunctionBlock(At(vm.functions, ReturningFrame.func_index))]_vars

\* C38: once the PRE spans of a call have passed, the binding stack is what it
\* would be for a function without contracts: the bindings beneath the call
\* followed by the call's arguments (a consequence of the claim: its length)
CallAfterPre ==
    /\ phase = "exec" /\ vm.natives # <<>>
    /\ Top(vm.natives).kind # "ret" /\ Top(vm.natives).spans = <<>>
    /\ Len(vm'.natives) < Len(vm.natives)
    /\ vm'.status = "running"
C38_SpansLeaveNoTrace ==
    [][(ver.result = "ok" /\ CallAfterPre) =>
           Len(vm'.bindings) =
               Top(vm.natives).saved_binding_depth
                   + At(vm.functions, Top(vm.natives).func_index).param_count]_vars

\* C39: in an accepted program every MATCH instruction of the entry region or
\* of a function body, nested in a CASE body or not, has a MatchInfo
InEntryOrBody(pc) ==
    \/ pc >= ver.s.entry_point
    \/ \E k \in 1..Len(ver.s.functions) :
           ver.s.functions[k].body_start_pc <= pc /\ pc < ver.s.functions[k].endfunc_pc
C39_EveryMatchIsRecorded ==
    ver.result = "ok" =>
        \A pc \in 0..(Len(prog) - 1) :
            (OpAt(prog, pc) = "MATCH" /\ ~IsCarrierSlot(pc) /\ InEntryOrBody(pc)) =>
                \E k \in 1..Len(ver.s.matches) : ver.s.matches[k].match_pc = pc
====
